---- MODULE Spec2Model ----
(***************************************************************************)
(* A model of wdi-rs: the DriverInstaller orchestration (installer.rs)     *)
(* over the safe facade of libwdi (wdi.rs) and its C ABI (ffi.rs).         *)
(*                                                                         *)
(* Strings are sequences of tokens.  A device string is a sequence of      *)
(* characters; "NUL" is the terminator byte and "xFF" a byte that is not   *)
(* valid UTF-8.  A path string is a sequence of path components separated  *)
(* by the token "\\".                                                      *)
(***************************************************************************)
EXTENDS Integers, Sequences, FiniteSets, TLC

VARIABLES
    installer,      \* run -> the DriverInstaller value (consumed by install)
    pc,             \* run -> position of the run inside install()
    devices,        \* run -> the DeviceList local of find_device
    device,         \* run -> the Device resolved by find_device
    temp_dir,       \* run -> the TempDir handle local of prepare_and_install
    driver_path,    \* run -> the driver directory string
    inf_path,       \* run -> the INF path string
    result,         \* run -> what install() returned
    heap,           \* native memory: address -> WdiDeviceInfo node
    fs_dirs,        \* the temporary directories that exist on disk
    fs_files,       \* the files written by the runs: path string -> bytes
    calls,          \* the native calls made so far, in order
    pred_evals,     \* run -> the devices the predicate was evaluated on
    passes,         \* run -> the records visited by each DeviceIter of the run
    dir_log,        \* the temporary directory and file events so far, in order
    log,            \* run -> the diagnostics the run has logged, in order
    client,         \* run -> a direct caller of the wdi.rs facade: the last
                    \*        value it was returned and its DeviceIter
    env             \* run -> what the native library and the file system
                    \*        may answer the run, and whether its caller
                    \*        serialises install() with a per-device lock

vars == <<installer, pc, devices, device, temp_dir, driver_path, inf_path,
          result, heap, fs_dirs, fs_files, calls, pred_evals, passes, dir_log, log,
          client, env>>

(***************************************************************************)
(* Bounds of the model.                                                    *)
(***************************************************************************)
MaxCatalog == 3

MaxCode == 101

MaxIters == 2

(***************************************************************************)
(* Option<T>, C pointers and strings.                                      *)
(***************************************************************************)
None == [some |-> FALSE, val |-> <<>>]

Some(v) == [some |-> TRUE, val |-> v]

NullPtr == [null |-> TRUE, bytes |-> <<>>]

Ptr(b) == [null |-> FALSE, bytes |-> b]

WinUSBMarker == <<"W", "i", "n", "U", "S", "B">>

S_WinUSBv2 == <<"W", "i", "n", "U", "S", "B", " ", "v", "2">>

S_WinUS == <<"W", "i", "n", "U", "S">>

S_xWinUSB == <<"x", "W", "i", "n", "U", "S", "B">>

S_winusb == <<"w", "i", "n", "u", "s", "b">>

S_libusb0 == <<"l", "i", "b", "u", "s", "b", "0">>

S_bad == <<"W", "i", "n", "xFF">>

S_nul == <<"a", "NUL", "b">>

\* str::starts_with
StartsWith(s, p) ==
    /\ Len(s) >= Len(p)
    /\ SubSeq(s, 1, Len(p)) = p

HasNul(s) == \E i \in 1..Len(s) : s[i] = "NUL"

\* CStr::from_ptr: the bytes up to the first terminator
RECURSIVE CStrFromPtr(_)
CStrFromPtr(b) ==
    IF b = <<>> \/ Head(b) = "NUL" THEN <<>>
    ELSE <<Head(b)>> \o CStrFromPtr(Tail(b))

\* CStr::to_str: fails on bytes that are not UTF-8
IsUtf8(b) == \A i \in 1..Len(b) : b[i] # "xFF"

ptr_to_string(ptr) ==
    IF ptr.null THEN None
    ELSE LET b == CStrFromPtr(ptr.bytes)
         IN  IF IsUtf8(b) THEN Some(b) ELSE None

\* CString::new(s).ok() and then as_ptr, or null
OptToPtr(o) ==
    IF o.some /\ ~HasNul(o.val) THEN Ptr(o.val) ELSE NullPtr

(***************************************************************************)
(* The error taxonomy.                                                     *)
(***************************************************************************)
Err(name) == [name |-> name, code |-> 0]

Unknown(c) == [name |-> "Unknown", code |-> c]

Success == [name |-> "Success", code |-> 0]

\* faulty variant: a code outside the table is reported as Other
from_code_OtherForUnknown(code) ==
    CASE code = 0 -> Success
      [] code = -1 -> Err("Io")
      [] code = -2 -> Err("InvalidParam")
      [] code = -3 -> Err("Access")
      [] code = -4 -> Err("NoDevice")
      [] code = -5 -> Err("NotFound")
      [] code = -6 -> Err("Busy")
      [] code = -7 -> Err("Timeout")
      [] code = -8 -> Err("Overflow")
      [] code = -9 -> Err("PendingInstallation")
      [] code = -10 -> Err("Interrupted")
      [] code = -11 -> Err("Resource")
      [] code = -12 -> Err("NotSupported")
      [] code = -13 -> Err("Exists")
      [] code = -14 -> Err("UserCancel")
      [] code = -15 -> Err("NeedsAdmin")
      [] code = -16 -> Err("Wow64")
      [] code = -17 -> Err("InfSyntax")
      [] code = -18 -> Err("CatMissing")
      [] code = -19 -> Err("Unsigned")
      [] OTHER -> Err("Other")

from_code(code) ==
    CASE code = 0 -> Success
      [] code = -1 -> Err("Io")
      [] code = -2 -> Err("InvalidParam")
      [] code = -3 -> Err("Access")
      [] code = -4 -> Err("NoDevice")
      [] code = -5 -> Err("NotFound")
      [] code = -6 -> Err("Busy")
      [] code = -7 -> Err("Timeout")
      [] code = -8 -> Err("Overflow")
      [] code = -9 -> Err("PendingInstallation")
      [] code = -10 -> Err("Interrupted")
      [] code = -11 -> Err("Resource")
      [] code = -12 -> Err("NotSupported")
      [] code = -13 -> Err("Exists")
      [] code = -14 -> Err("UserCancel")
      [] code = -15 -> Err("NeedsAdmin")
      [] code = -16 -> Err("Wow64")
      [] code = -17 -> Err("InfSyntax")
      [] code = -18 -> Err("CatMissing")
      [] code = -19 -> Err("Unsigned")
      [] code = -99 -> Err("Other")
      [] OTHER -> Unknown(code)

\* Result<Device, Error> of install()
NoResult == [kind |-> "none", err |-> Success, dev |-> None]

Ok(d) == [kind |-> "Ok", err |-> Success, dev |-> Some(d)]

Fail(e) == [kind |-> "Err", err |-> e, dev |-> None]

(***************************************************************************)
(* Driver types.                                                           *)
(***************************************************************************)
DriverType == {"WinUsb", "LibUsb0", "LibUsbK", "Cdc", "User"}

to_c_int(t) ==
    CASE t = "WinUsb" -> 0
      [] t = "LibUsb0" -> 1
      [] t = "LibUsbK" -> 2
      [] t = "Cdc" -> 3
      [] t = "User" -> 4

(***************************************************************************)
(* Device records: the native WdiDeviceInfo and the copied-out Device.     *)
(***************************************************************************)
WdiDeviceInfo(vid, pid, driver, device_id) ==
    [vid |-> vid, pid |-> pid, is_composite |-> 0, mi |-> 0,
     desc |-> NullPtr, driver |-> driver, device_id |-> device_id,
     hardware_id |-> NullPtr, compatible_id |-> NullPtr,
     upper_filter |-> NullPtr, driver_version |-> 0]

Device(vid, pid, driver, device_id) ==
    [vid |-> vid, pid |-> pid, is_composite |-> FALSE, mi |-> 0,
     desc |-> None, driver |-> driver, device_id |-> device_id,
     hardware_id |-> None, compatible_id |-> None,
     upper_filter |-> None, driver_version |-> 0]

from_raw(raw) ==
    [vid |-> raw.vid, pid |-> raw.pid,
     is_composite |-> (raw.is_composite # 0), mi |-> raw.mi,
     desc |-> ptr_to_string(raw.desc),
     driver |-> ptr_to_string(raw.driver),
     device_id |-> ptr_to_string(raw.device_id),
     hardware_id |-> ptr_to_string(raw.hardware_id),
     compatible_id |-> ptr_to_string(raw.compatible_id),
     upper_filter |-> ptr_to_string(raw.upper_filter),
     driver_version |-> raw.driver_version]

\* The WdiDeviceInfo that prepare_driver and install_driver build from a Device
to_raw(d) ==
    [vid |-> d.vid, pid |-> d.pid,
     is_composite |-> (IF d.is_composite THEN 1 ELSE 0), mi |-> d.mi,
     desc |-> OptToPtr(d.desc),
     driver |-> OptToPtr(d.driver),
     device_id |-> OptToPtr(d.device_id),
     hardware_id |-> OptToPtr(d.hardware_id),
     compatible_id |-> OptToPtr(d.compatible_id),
     upper_filter |-> OptToPtr(d.upper_filter),
     driver_version |-> d.driver_version]

(***************************************************************************)
(* The native device list: a singly linked list of nodes in native memory. *)
(* Address 0 is the null pointer.                                          *)
(***************************************************************************)
NullAddr == 0

\* The first address past the nodes allocated so far
Brk(h) == IF DOMAIN h = {} THEN 1
          ELSE 1 + CHOOSE a \in DOMAIN h : \A b \in DOMAIN h : b <= a

\* wdi_create_list: the nodes libwdi allocates for the enumerated records
NativeList(cat, base) ==
    [a \in base..(base + Len(cat) - 1) |->
        [next |-> IF a < base + Len(cat) - 1 THEN a + 1 ELSE NullAddr,
         info |-> cat[a - base + 1]]]

NativeHead(cat, base) == IF cat = <<>> THEN NullAddr ELSE base

\* the nodes wdi_destroy_list frees, walking from the head
RECURSIVE ListNodes(_, _)
ListNodes(h, cur) ==
    IF cur = NullAddr \/ cur \notin DOMAIN h THEN {}
    ELSE {cur} \cup ListNodes(h, h[cur].next)

wdi_destroy_list(h, head) ==
    [a \in DOMAIN h \ ListNodes(h, head) |-> h[a]]

\* DeviceList and its handle state; dropped records that Drop has run
NoList == [held |-> FALSE, head |-> NullAddr, dropped |-> FALSE]

DeviceList(head) == [held |-> TRUE, head |-> head, dropped |-> FALSE]

\* faulty variant: the list is never handed back to libwdi
DropCallsDestroy_Never(list) == FALSE

\* impl Drop for DeviceList: whether wdi_destroy_list is called
DropCallsDestroy(list) == list.head # NullAddr

\* DeviceIter: repeated next() from `cur` until it returns None
RECURSIVE IterCollect(_, _)
IterCollect(h, cur) ==
    IF cur = NullAddr THEN <<>>
    ELSE <<from_raw(h[cur].info)>> \o IterCollect(h, h[cur].next)

iter(h, list) == IterCollect(h, list.head)

len(h, list) == Len(iter(h, list))

is_empty(list) == list.head = NullAddr

\* faulty variant: the index counts from one
get_OneBased(h, list, index) ==
    IF index >= 1 /\ index <= Len(iter(h, list))
    THEN Some(iter(h, list)[index])
    ELSE None

get(h, list, index) ==
    IF index + 1 <= Len(iter(h, list)) THEN Some(iter(h, list)[index + 1])
    ELSE None

from_vid_pid(h, list, vid, pid) ==
    SelectSeq(iter(h, list), LAMBDA d : d.vid = vid /\ d.pid = pid)

(***************************************************************************)
(* Predicates of DeviceSelector::First, by name.                           *)
(***************************************************************************)
PredApply(p, d) ==
    CASE p = "pid_is_2" -> d.pid = 2
      [] p = "no_driver" -> ~d.driver.some
      [] OTHER -> FALSE

\* Iterator::find: next() and the predicate, until the predicate holds.
\* Gives the item found and the devices the predicate was evaluated on.
RECURSIVE IterFind(_, _, _, _)
IterFind(h, cur, p, seen) ==
    IF cur = NullAddr THEN [item |-> None, evals |-> seen]
    ELSE LET d == from_raw(h[cur].info)
         IN  IF PredApply(p, d)
             THEN [item |-> Some(d), evals |-> Append(seen, d)]
             ELSE IterFind(h, h[cur].next, p, Append(seen, d))

(***************************************************************************)
(* Paths.  A path is its components; an absolute path starts with the      *)
(* drive component "C:".  utf8 tells whether to_str succeeds on it.        *)
(***************************************************************************)
Path(abs, comps) == [abs |-> abs, utf8 |-> TRUE, comps |-> comps]

NonUtf8(p) == [p EXCEPT !.utf8 = FALSE]

\* Path::new(&str): split the string at the separators
RECURSIVE SplitComps(_)
SplitComps(s) ==
    IF s = <<>> THEN <<>>
    ELSE IF Head(s) = "\\" THEN SplitComps(Tail(s))
    ELSE <<Head(s)>> \o SplitComps(Tail(s))

PathFromStr(s) ==
    [abs |-> (s # <<>> /\ Head(s) = "C:"), utf8 |-> TRUE,
     comps |-> SplitComps(s)]

\* Path::join: an absolute argument replaces the base
PathJoin(p, q) ==
    IF q.abs THEN q
    ELSE [abs |-> p.abs, utf8 |-> p.utf8 /\ q.utf8,
          comps |-> p.comps \o q.comps]

RECURSIVE Interleave(_)
Interleave(comps) ==
    IF comps = <<>> THEN <<>>
    ELSE IF Len(comps) = 1 THEN comps
    ELSE <<Head(comps), "\\">> \o Interleave(Tail(comps))

\* Path::to_str
to_str(p) ==
    IF ~p.utf8 THEN None
    ELSE IF p.abs /\ Len(p.comps) = 1 THEN Some(<<p.comps[1], "\\">>)
    ELSE Some(Interleave(p.comps))

\* Path::parent: None for a root and for the empty path
parent(p) ==
    IF p.comps = <<>> \/ (p.abs /\ Len(p.comps) = 1) THEN None
    ELSE Some([p EXCEPT !.comps = SubSeq(p.comps, 1, Len(p.comps) - 1)])

\* the location a path names, ".." resolved
RECURSIVE Resolve(_, _)
Resolve(comps, acc) ==
    IF comps = <<>> THEN acc
    ELSE IF Head(comps) = ".."
         THEN Resolve(Tail(comps),
                      IF Len(acc) > 1 THEN SubSeq(acc, 1, Len(acc) - 1) ELSE acc)
    ELSE Resolve(Tail(comps), Append(acc, Head(comps)))

IsUnder(p, dir) ==
    LET pc_ == Resolve(p.comps, <<>>)
        dc == Resolve(dir.comps, <<>>)
    IN  /\ p.abs = dir.abs
        /\ Len(pc_) > Len(dc)
        /\ SubSeq(pc_, 1, Len(dc)) = dc

\* the directory TempDir::new creates: a fresh name under the system temp dir
TempNames == <<".tmpA", ".tmpB", ".tmpC">>

TempPath(name) == Path(TRUE, <<"C:", "Temp", name>>)

\* faulty variant: every TempDir gets the same name
FreshTempName_Reused(events) == TempNames[1]

\* the names are random: one is never given out twice
FreshTempName(events) ==
    TempNames[1 + Cardinality({ i \in 1..Len(events) : events[i].ev = "create" })]

(***************************************************************************)
(* Option structs.                                                         *)
(***************************************************************************)
DEFAULT_PENDING_INSTALL_TIMEOUT == 120000

CreateListOptionsDefault ==
    [list_all |-> FALSE, list_hubs |-> FALSE, trim_whitespaces |-> TRUE]

PrepareDriverOptionsDefault ==
    [driver_type |-> "WinUsb", vendor_name |-> None, device_guid |-> None,
     disable_cat |-> FALSE, disable_signing |-> FALSE, cert_subject |-> None,
     use_wcid_driver |-> FALSE, external_inf |-> FALSE]

InstallDriverOptionsDefault ==
    [install_filter_driver |-> FALSE,
     pending_install_timeout |-> DEFAULT_PENDING_INSTALL_TIMEOUT]

InstallOptionsDefault ==
    [prepare_opts |-> PrepareDriverOptionsDefault,
     install_opts |-> InstallDriverOptionsDefault]

BoolToInt(b) == IF b THEN 1 ELSE 0

\* the C structs the facade fills in from the option structs
WdiOptionsCreateList(o) ==
    [list_all |-> BoolToInt(o.list_all), list_hubs |-> BoolToInt(o.list_hubs),
     trim_whitespaces |-> BoolToInt(o.trim_whitespaces)]

WdiOptionsPrepareDriver(o) ==
    [driver_type |-> to_c_int(o.driver_type),
     vendor_name |-> OptToPtr(o.vendor_name),
     device_guid |-> OptToPtr(o.device_guid),
     disable_cat |-> BoolToInt(o.disable_cat),
     disable_signing |-> BoolToInt(o.disable_signing),
     cert_subject |-> OptToPtr(o.cert_subject),
     use_wcid_driver |-> BoolToInt(o.use_wcid_driver),
     external_inf |-> BoolToInt(o.external_inf)]

WdiOptionsInstallDriver(o) ==
    [hwnd |-> NullAddr,
     install_filter_driver |-> BoolToInt(o.install_filter_driver),
     pending_install_timeout |-> o.pending_install_timeout]

(***************************************************************************)
(* DeviceSelector, InfSource and DriverInstaller values.                   *)
(***************************************************************************)
NoDev == Device(0, 0, None, None)

VidPid(vid, pid) ==
    [kind |-> "VidPid", vid |-> vid, pid |-> pid, pred |-> "", dev |-> NoDev]

First(p) ==
    [kind |-> "First", vid |-> 0, pid |-> 0, pred |-> p, dev |-> NoDev]

Specific(d) ==
    [kind |-> "Specific", vid |-> 0, pid |-> 0, pred |-> "", dev |-> d]

NoPath == Path(FALSE, <<>>)

Generated ==
    [kind |-> "Generated", data |-> <<>>, filename |-> <<>>, path |-> NoPath]

Embedded(data, filename) ==
    [kind |-> "Embedded", data |-> data, filename |-> filename, path |-> NoPath]

External(path) ==
    [kind |-> "External", data |-> <<>>, filename |-> <<>>, path |-> path]

\* faulty variant: the fresh installer already asks for an external INF
new_ExternalInfSet(device_selector) ==
    [device_selector |-> device_selector,
     driver_type |-> "WinUsb",
     inf_source |-> Generated,
     options |-> [InstallOptionsDefault EXCEPT !.prepare_opts.external_inf = TRUE]]

\* DriverInstaller::new
new(device_selector) ==
    [device_selector |-> device_selector,
     driver_type |-> "WinUsb",
     inf_source |-> Generated,
     options |-> InstallOptionsDefault]

for_device(vid, pid) == new(VidPid(vid, pid))

for_specific_device(d) == new(Specific(d))

(***************************************************************************)
(* The inputs the model draws from.                                        *)
(***************************************************************************)
NativeDevices ==
    { WdiDeviceInfo(1, 1, NullPtr, Ptr(<<"a">>)),
      WdiDeviceInfo(2, 2, NullPtr, Ptr(<<"b">>)),
      WdiDeviceInfo(1, 1, Ptr(S_WinUSBv2), Ptr(<<"c">>)),
      WdiDeviceInfo(2, 2, Ptr(S_libusb0), Ptr(<<"d">>)),
      WdiDeviceInfo(1, 1, Ptr(S_bad), Ptr(<<"e">>)) }

Catalogs == UNION { [1..n -> NativeDevices] : n \in 0..MaxCatalog }

\* what a failing wdi_create_list may leave in *list
Leftovers == { <<>>, <<WdiDeviceInfo(1, 1, NullPtr, Ptr(<<"a">>))>> }

NativeCodes == {0, -7, -9, -13, 3}

DriverStrings ==
    { S_WinUSBv2, WinUSBMarker, S_WinUS, S_xWinUSB, S_winusb, S_libusb0, <<>> }

SpecificDevices ==
    { Device(1, 1, None, Some(<<"a">>)) }
    \cup { Device(1, 1, Some(s), Some(<<"s">>)) : s \in DriverStrings }

Selectors ==
    { VidPid(1, 1), First("pid_is_2") }
    \cup { Specific(d) : d \in SpecificDevices }

PrepareOptionsInputs ==
    LET custom == [driver_type |-> "LibUsbK",
                   vendor_name |-> Some(<<"A", "c", "m", "e">>),
                   device_guid |-> Some(<<"{", "1", "}">>),
                   disable_cat |-> TRUE, disable_signing |-> FALSE,
                   cert_subject |-> None,
                   use_wcid_driver |-> TRUE, external_inf |-> FALSE]
    IN  { PrepareDriverOptionsDefault,
          [PrepareDriverOptionsDefault EXCEPT !.external_inf = TRUE],
          custom,
          [custom EXCEPT !.external_inf = TRUE] }

InstallOptionsInputs ==
    { InstallDriverOptionsDefault,
      [install_filter_driver |-> TRUE, pending_install_timeout |-> 5000] }

InfData == <<"[Version]">>

\* a plain name, a name with parent-directory components, an absolute path
InfFilenames ==
    { <<"dev.inf">>,
      <<"..", "\\", "inf", "\\", "sample.inf">>,
      <<"C:", "\\", "evil.inf">> }

ExtGood == Path(TRUE, <<"C:", "drivers", "my.inf">>)

ExtMissing == Path(TRUE, <<"C:", "drivers", "gone.inf">>)

ExtRoot == Path(TRUE, <<"C:">>)

ExtNonUtf8 == NonUtf8(Path(TRUE, <<"C:", "drivers", "odd.inf">>))

InfFiles == { ExtGood, ExtMissing, ExtRoot, ExtNonUtf8 }

\* Path::exists on the files the runs did not write themselves
exists(p) == p \in { ExtGood, ExtRoot, ExtNonUtf8 }

TempOutcomes == { "ok", "fail", "nonutf8" }

(***************************************************************************)
(* The answers the surroundings may give a run: the codes the native calls *)
(* return, the catalog wdi_create_list builds, how TempDir::new and        *)
(* fs::write come out.  Each is either anything the model knows or one of  *)
(* a given set; a set of one element fixes the answer beforehand.          *)
(***************************************************************************)
Anything == [any |-> TRUE, of |-> {}]

Only(S) == [any |-> FALSE, of |-> S]

Draw(e, all) == IF e.any THEN all ELSE e.of

AnyEnv ==
    [locked |-> FALSE, create_codes |-> Anything, catalogs |-> Anything,
     temps |-> Anything, writes |-> Anything, prepare_codes |-> Anything,
     install_codes |-> Anything]

(***************************************************************************)
(* The initial state: one installer per run, fresh from its constructor.   *)
(***************************************************************************)
NoTempDir == [held |-> FALSE, name |-> "", path |-> NoPath]

TempDir(name, path) == [held |-> TRUE, name |-> name, path |-> path]

\* a run that has not called the facade directly
NoClient ==
    [op |-> "none", input |-> <<>>, ret |-> <<>>, iterating |-> FALSE,
     current |-> NullAddr, yielded |-> <<>>, iters |-> 0]

\* everything but the installers and the positions of the runs
InitState(R) ==
    /\ devices = [r \in R |-> NoList]
    /\ device = [r \in R |-> None]
    /\ temp_dir = [r \in R |-> NoTempDir]
    /\ driver_path = [r \in R |-> <<>>]
    /\ inf_path = [r \in R |-> <<>>]
    /\ result = [r \in R |-> NoResult]
    /\ heap = << >>
    /\ fs_dirs = {}
    /\ fs_files = {}
    /\ calls = << >>
    /\ pred_evals = [r \in R |-> << >>]
    /\ passes = [r \in R |-> << >>]
    /\ dir_log = << >>
    /\ log = [r \in R |-> << >>]
    /\ client = [r \in R |-> NoClient]

InitRuns(R) ==
    /\ installer \in [R -> { new(s) : s \in Selectors }]
    /\ pc = [r \in R |-> "Building"]
    /\ env = [r \in R |-> AnyEnv]
    /\ InitState(R)

Init == InitRuns({1})

Runs == DOMAIN pc

(***************************************************************************)
(* The builder steps.                                                      *)
(***************************************************************************)
with_inf_data(self, data, filename) ==
    [self EXCEPT !.inf_source = Embedded(data, filename)]

with_inf_file(self, path) ==
    [self EXCEPT !.inf_source = External(path)]

\* faulty variant: choosing the driver type drops the INF source
with_driver_type_ResetsInf(self, driver_type) ==
    [self EXCEPT !.driver_type = driver_type, !.inf_source = Generated]

with_driver_type(self, driver_type) ==
    [self EXCEPT !.driver_type = driver_type]

with_prepare_options(self, opts) ==
    [self EXCEPT !.options.prepare_opts = opts]

\* faulty variant: the install options come with fresh prepare options
with_install_options_ResetsPrepare(self, opts) ==
    [self EXCEPT !.options.install_opts = opts,
                 !.options.prepare_opts = PrepareDriverOptionsDefault]

with_install_options(self, opts) ==
    [self EXCEPT !.options.install_opts = opts]

Build(r, next) ==
    /\ pc[r] = "Building"
    /\ installer' = [installer EXCEPT ![r] = next]
    /\ UNCHANGED <<pc, devices, device, temp_dir, driver_path, inf_path,
                   result, heap, fs_dirs, fs_files, calls, pred_evals, passes, dir_log, log>>

WithInfData(r) ==
    \E f \in InfFilenames : Build(r, with_inf_data(installer[r], InfData, f))

WithInfFile(r) ==
    \E p \in InfFiles : Build(r, with_inf_file(installer[r], p))

WithDriverType(r) ==
    \E t \in DriverType : Build(r, with_driver_type(installer[r], t))

WithPrepareOptions(r) ==
    \E o \in PrepareOptionsInputs :
        Build(r, with_prepare_options(installer[r], o))

WithInstallOptions(r) ==
    \E o \in InstallOptionsInputs :
        Build(r, with_install_options(installer[r], o))

(***************************************************************************)
(* The record of a native call: its arguments and, once it has returned,   *)
(* its return code.                                                        *)
(***************************************************************************)
NativeCall(r, fn, args) ==
    [run |-> r, fn |-> fn, args |-> args, done |-> FALSE, code |-> 0]

Returned(c, code) == [c EXCEPT !.done = TRUE, !.code = code]

\* the index in the call record of the call run r is inside
Pending(r) ==
    CHOOSE i \in 1..Len(calls) : calls[i].run = r /\ ~calls[i].done

(***************************************************************************)
(* install(): Selecting.                                                   *)
(***************************************************************************)
Install(r) ==
    /\ pc[r] = "Building"
    /\ pc' = [pc EXCEPT ![r] = "Selecting"]
    /\ UNCHANGED <<installer, devices, device, temp_dir, driver_path, inf_path,
                   result, heap, fs_dirs, fs_files, calls, pred_evals, passes, dir_log, log>>

\* faulty variant: the held device is looked up again in a fresh enumeration
FindDeviceSpecific_Enumerates(r) ==
    /\ pc[r] = "Selecting"
    /\ installer[r].device_selector.kind = "Specific"
    /\ device' = [device EXCEPT ![r] = Some(installer[r].device_selector.dev)]
    /\ calls' = Append(calls,
           Returned(NativeCall(r, "wdi_create_list",
                       [options |-> WdiOptionsCreateList(CreateListOptionsDefault)]),
                    0))
    /\ pc' = [pc EXCEPT ![r] = "ConflictChecking"]
    /\ UNCHANGED <<installer, devices, temp_dir, driver_path, inf_path,
                   result, heap, fs_dirs, fs_files, pred_evals, passes, dir_log, log>>

\* DeviceSelector::Specific: the held device, no enumeration
FindDeviceSpecific(r) ==
    /\ pc[r] = "Selecting"
    /\ installer[r].device_selector.kind = "Specific"
    /\ device' = [device EXCEPT ![r] = Some(installer[r].device_selector.dev)]
    /\ pc' = [pc EXCEPT ![r] = "ConflictChecking"]
    /\ UNCHANGED <<installer, devices, temp_dir, driver_path, inf_path,
                   result, heap, fs_dirs, fs_files, calls, pred_evals, passes, dir_log, log>>

\* the options find_device enumerates with
\* faulty variant: the enumeration uses CreateListOptions::default()
FindDeviceListOptions_Default == CreateListOptionsDefault

FindDeviceListOptions ==
    [list_all |-> TRUE, list_hubs |-> FALSE, trim_whitespaces |-> TRUE]

\* faulty variant: every failure of wdi_create_list is reported as NotFound
CreateList_MasksError(r) ==
    /\ pc[r] = "Selecting"
    /\ installer[r].device_selector.kind \in {"VidPid", "First"}
    /\ \E code \in NativeCodes, cat \in Catalogs :
         /\ code # 0 => cat \in Leftovers
         /\ LET base == Brk(heap)
                call == NativeCall(r, "wdi_create_list",
                            [options |-> WdiOptionsCreateList(FindDeviceListOptions)])
            IN  /\ heap' = heap @@ NativeList(cat, base)
                /\ calls' = Append(calls, Returned(call, code))
                /\ IF from_code(code) # Success
                   THEN /\ result' = [result EXCEPT ![r] = Fail(Err("NotFound"))]
                        /\ pc' = [pc EXCEPT ![r] = "Failed"]
                        /\ UNCHANGED devices
                   ELSE /\ devices' = [devices EXCEPT
                                         ![r] = DeviceList(NativeHead(cat, base))]
                        /\ pc' = [pc EXCEPT ![r] = "Listed"]
                        /\ UNCHANGED result
    /\ UNCHANGED <<installer, device, temp_dir, driver_path, inf_path,
                   fs_dirs, fs_files, pred_evals, passes, dir_log, log>>

\* create_list: wdi_create_list, then from_code, then the DeviceList
CreateList(r) ==
    /\ pc[r] = "Selecting"
    /\ installer[r].device_selector.kind \in {"VidPid", "First"}
    /\ \E code \in Draw(env[r].create_codes, NativeCodes),
          cat \in Draw(env[r].catalogs, Catalogs) :
         /\ code # 0 => cat \in Leftovers
         /\ LET base == Brk(heap)
                call == NativeCall(r, "wdi_create_list",
                            [options |-> WdiOptionsCreateList(FindDeviceListOptions)])
            IN  /\ heap' = heap @@ NativeList(cat, base)
                /\ calls' = Append(calls, Returned(call, code))
                /\ IF from_code(code) # Success
                   THEN /\ result' = [result EXCEPT ![r] = Fail(from_code(code))]
                        /\ pc' = [pc EXCEPT ![r] = "Failed"]
                        /\ UNCHANGED devices
                   ELSE /\ devices' = [devices EXCEPT
                                         ![r] = DeviceList(NativeHead(cat, base))]
                        /\ pc' = [pc EXCEPT ![r] = "Listed"]
                        /\ UNCHANGED result
    /\ UNCHANGED <<installer, device, temp_dir, driver_path, inf_path,
                   fs_dirs, fs_files, pred_evals, passes, dir_log, log>>

\* a logged diagnostic
Log(level, msg, n) == [level |-> level, msg |-> msg, n |-> n]

\* faulty variant: the last matching record is taken instead of the first
FindVidPid_Last(h, list, vid, pid) ==
    LET found == Log("trace", "Found USB devices", len(h, list))
        matching == SelectSeq(iter(h, list),
                              LAMBDA d : d.vid = vid /\ d.pid = pid)
    IN  IF matching = <<>>
        THEN [res |-> Fail(Err("NotFound")), logs |-> <<found>>,
              passes |-> <<found.n, found.n>>]
        ELSE [res |-> Ok(matching[Len(matching)]),
              passes |-> <<found.n, found.n>>,
              logs |-> <<found>> \o
                  (IF Len(matching) > 1
                   THEN <<Log("warn", "Multiple USB devices found with VID:PID", 0)>>
                   ELSE <<>>)]

\* faulty variant: with no matching record the first record is taken
FindVidPid_FallsBack(h, list, vid, pid) ==
    LET found == Log("trace", "Found USB devices", len(h, list))
        matching == SelectSeq(iter(h, list),
                              LAMBDA d : d.vid = vid /\ d.pid = pid)
    IN  IF is_empty(list)
        THEN [res |-> Fail(Err("NotFound")), passes |-> <<found.n>>,
              logs |-> <<found, Log("error", "No USB devices found", 0)>>]
        ELSE IF matching = <<>>
        THEN [res |-> Ok(iter(h, list)[1]), passes |-> <<found.n, found.n>>,
              logs |-> <<found, Log("error", "No USB devices found with VID:PID", 0)>>]
        ELSE [res |-> Ok(matching[1]), passes |-> <<found.n, found.n>>,
              logs |-> <<found>>]

\* the VidPid arm of find_device, after create_list: devices.len() walks the
\* list for the trace message, iter().filter().collect() walks it again
FindVidPid(h, list, vid, pid) ==
    LET found == Log("trace", "Found USB devices", len(h, list))
    IN  IF is_empty(list)
        THEN [res |-> Fail(Err("NotFound")), passes |-> <<found.n>>,
              logs |-> <<found, Log("error", "No USB devices found", 0)>>]
        ELSE LET visited == iter(h, list)
                 matching == SelectSeq(visited,
                                       LAMBDA d : d.vid = vid /\ d.pid = pid)
             IN  IF matching = <<>>
                 THEN [res |-> Fail(Err("NotFound")),
                       passes |-> <<found.n, Len(visited)>>,
                       logs |-> <<found, Log("error", "No USB devices found with VID:PID", 0)>>]
                 ELSE [res |-> Ok(matching[1]),
                       passes |-> <<found.n, Len(visited)>>,
                       logs |-> <<found>> \o
                           (IF Len(matching) > 1
                            THEN <<Log("warn", "Multiple USB devices found with VID:PID", 0),
                                   Log("info", "Using first device found", 0)>>
                            ELSE <<>>)]

\* faulty variant: the predicate filters the whole list before the first is taken
FindFirst_Eager(h, list, p) ==
    LET found == Log("trace", "Found USB devices", len(h, list))
        matching == SelectSeq(iter(h, list), LAMBDA d : PredApply(p, d))
    IN  IF matching = <<>>
        THEN [res |-> Fail(Err("NotFound")), evals |-> iter(h, list),
              passes |-> <<found.n, found.n>>, logs |-> <<found>>]
        ELSE [res |-> Ok(matching[1]), evals |-> iter(h, list),
              passes |-> <<found.n, found.n>>, logs |-> <<found>>]

\* the First arm of find_device, after create_list: devices.len() walks the
\* list for the trace message, iter().find() walks it again up to the match
FindFirst(h, list, p) ==
    LET found == Log("trace", "Found USB devices", len(h, list))
    IN  IF is_empty(list)
        THEN [res |-> Fail(Err("NotFound")), evals |-> <<>>,
              passes |-> <<found.n>>,
              logs |-> <<found, Log("error", "No USB devices found", 0)>>]
        ELSE LET f == IterFind(h, list.head, p, <<>>)
             IN  IF f.item.some
                 THEN [res |-> Ok(f.item.val), evals |-> f.evals,
                       passes |-> <<found.n, Len(f.evals)>>,
                       logs |-> <<found>>]
                 ELSE [res |-> Fail(Err("NotFound")), evals |-> f.evals,
                       passes |-> <<found.n, Len(f.evals)>>,
                       logs |-> <<found, Log("error", "No device matched the predicate", 0)>>]

\* faulty variant: the DeviceList is kept when find_device returns
Selected_KeepsList(r, res) ==
    /\ IF res.kind = "Ok"
       THEN /\ device' = [device EXCEPT ![r] = res.dev]
            /\ pc' = [pc EXCEPT ![r] = "ConflictChecking"]
            /\ UNCHANGED result
       ELSE /\ result' = [result EXCEPT ![r] = res]
            /\ pc' = [pc EXCEPT ![r] = "Failed"]
            /\ UNCHANGED device
    /\ UNCHANGED <<devices, heap, calls>>

\* the end of find_device: its result, and the DeviceList goes out of scope
Selected(r, res) ==
    /\ IF res.kind = "Ok"
       THEN /\ device' = [device EXCEPT ![r] = res.dev]
            /\ pc' = [pc EXCEPT ![r] = "ConflictChecking"]
            /\ UNCHANGED result
       ELSE /\ result' = [result EXCEPT ![r] = res]
            /\ pc' = [pc EXCEPT ![r] = "Failed"]
            /\ UNCHANGED device
    /\ devices' = [devices EXCEPT ![r] = [@ EXCEPT !.held = FALSE,
                                                   !.dropped = TRUE]]
    /\ IF DropCallsDestroy(devices[r])
       THEN /\ heap' = wdi_destroy_list(heap, devices[r].head)
            /\ calls' = Append(calls,
                   Returned(NativeCall(r, "wdi_destroy_list",
                                       [list |-> devices[r].head]), 0))
       ELSE UNCHANGED <<heap, calls>>

SelectVidPid(r) ==
    /\ pc[r] = "Listed"
    /\ installer[r].device_selector.kind = "VidPid"
    /\ LET f == FindVidPid(heap, devices[r],
                           installer[r].device_selector.vid,
                           installer[r].device_selector.pid)
       IN  /\ Selected(r, f.res)
           /\ passes' = [passes EXCEPT ![r] = f.passes]
           /\ log' = [log EXCEPT ![r] = @ \o f.logs]
    /\ UNCHANGED <<installer, temp_dir, driver_path, inf_path,
                   fs_dirs, fs_files, pred_evals, dir_log>>

SelectFirst(r) ==
    /\ pc[r] = "Listed"
    /\ installer[r].device_selector.kind = "First"
    /\ LET f == FindFirst(heap, devices[r], installer[r].device_selector.pred)
       IN  /\ Selected(r, f.res)
           /\ pred_evals' = [pred_evals EXCEPT ![r] = f.evals]
           /\ passes' = [passes EXCEPT ![r] = f.passes]
           /\ log' = [log EXCEPT ![r] = @ \o f.logs]
    /\ UNCHANGED <<installer, temp_dir, driver_path, inf_path,
                   fs_dirs, fs_files, dir_log>>

(***************************************************************************)
(* install(): ConflictChecking.                                            *)
(***************************************************************************)
\* faulty variant: a device that already has WinUSB is installed again
check_existing_driver_ReinstallsWinUSB(d) ==
    IF d.driver.some /\ ~StartsWith(d.driver.val, WinUSBMarker)
    THEN [err |-> Err("Exists"), logs |-> <<>>]
    ELSE [err |-> Success, logs |-> <<>>]

\* faulty variant: an empty driver name counts as no driver
check_existing_driver_EmptyIsAbsent(d) ==
    IF d.driver.some /\ d.driver.val # <<>>
    THEN [err |-> Err("Exists"), logs |-> <<>>]
    ELSE [err |-> Success, logs |-> <<>>]

check_existing_driver(d) ==
    IF d.driver.some
    THEN IF StartsWith(d.driver.val, WinUSBMarker)
         THEN [err |-> Err("Exists"),
               logs |-> <<Log("info", "Device already has WinUSB driver installed", 0)>>]
         ELSE [err |-> Err("Exists"),
               logs |-> <<Log("error", "Device already has a non-WinUSB driver installed", 0),
                          Log("error", "Cannot replace existing driver", 0)>>]
    ELSE [err |-> Success, logs |-> <<>>]

\* faulty variant: the conflict check waits while another run is working
\* on the same device
CheckExistingDriver_Exclusive(r) ==
    /\ pc[r] = "ConflictChecking"
    /\ \A q \in Runs \ {r} :
          ~(/\ pc[q] \in {"Provisioning", "Preparing", "InPrepare",
                          "Installing", "InInstall", "Installed"}
            /\ device[q].val.vid = device[r].val.vid
            /\ device[q].val.pid = device[r].val.pid)
    /\ LET c == check_existing_driver(device[r].val)
       IN  /\ log' = [log EXCEPT ![r] = @ \o c.logs]
           /\ IF c.err # Success
              THEN /\ result' = [result EXCEPT ![r] = Fail(c.err)]
                   /\ pc' = [pc EXCEPT ![r] = "Failed"]
              ELSE /\ pc' = [pc EXCEPT ![r] = "Provisioning"]
                   /\ UNCHANGED result
    /\ UNCHANGED <<installer, devices, device, temp_dir, driver_path, inf_path,
                   heap, fs_dirs, fs_files, calls, pred_evals, passes, dir_log>>

\* faulty variant: whatever the conflict check finds, the run goes on
CheckExistingDriver_NeverFails(r) ==
    /\ pc[r] = "ConflictChecking"
    /\ log' = [log EXCEPT ![r] = @ \o check_existing_driver(device[r].val).logs]
    /\ pc' = [pc EXCEPT ![r] = "Provisioning"]
    /\ UNCHANGED <<installer, devices, device, temp_dir, driver_path, inf_path,
                   heap, fs_dirs, fs_files, calls, pred_evals, passes, dir_log, result>>

CheckExistingDriver(r) ==
    /\ pc[r] = "ConflictChecking"
    /\ LET c == check_existing_driver(device[r].val)
       IN  /\ log' = [log EXCEPT ![r] = @ \o c.logs]
           /\ IF c.err # Success
              THEN /\ result' = [result EXCEPT ![r] = Fail(c.err)]
                   /\ pc' = [pc EXCEPT ![r] = "Failed"]
              ELSE /\ pc' = [pc EXCEPT ![r] = "Provisioning"]
                   /\ UNCHANGED result
    /\ UNCHANGED <<installer, devices, device, temp_dir, driver_path, inf_path,
                   heap, fs_dirs, fs_files, calls, pred_evals, passes, dir_log>>

(***************************************************************************)
(* The TempDir handle: dropping it removes the directory and what is in it. *)
(***************************************************************************)
RemoveDirAll(files, dir) == { f \in files : ~IsUnder(f.path, dir) }

DirsAfterDrop(dirs, td) == IF td.held THEN dirs \ {td.name} ELSE dirs

FilesAfterDrop(files, td) ==
    IF td.held THEN RemoveDirAll(files, td.path) ELSE files

DirEvent(ev, r, name, path) ==
    [ev |-> ev, run |-> r, dir |-> name, path |-> path]

LogAfterDrop(events, r, td) ==
    IF td.held
    THEN Append(events, DirEvent("release", r, td.name, td.path))
    ELSE events

Dropped(td) == [td EXCEPT !.held = FALSE]

(***************************************************************************)
(* prepare_and_install(): Provisioning.  The match on the INF source gives *)
(* the error or the (driver_path, inf_path, temp_dir) triple; `temp` is    *)
(* the TempDir created on the way, `written` the files written.            *)
(***************************************************************************)
Provisioned(err, dp, ip, temp, written) ==
    [err |-> err, driver_path |-> dp, inf_path |-> ip, temp |-> temp,
     written |-> written]

\* faulty variant: a failing fs::write is not noticed
provision_embedded_IgnoresWriteError(src, name, tdo, wr) ==
    IF tdo = "fail"
    THEN Provisioned(Err("Resource"), <<>>, <<>>, NoTempDir, {})
    ELSE LET tpath == IF tdo = "nonutf8" THEN NonUtf8(TempPath(name))
                      ELSE TempPath(name)
             td == TempDir(name, tpath)
             dp == to_str(tpath)
             inf_file_path == PathJoin(tpath, PathFromStr(src.filename))
             file == [path |-> inf_file_path, data |-> src.data]
             ip == to_str(inf_file_path)
         IN  IF ~dp.some
             THEN Provisioned(Err("InvalidParam"), <<>>, <<>>, td, {})
             ELSE IF ~ip.some
             THEN Provisioned(Err("InvalidParam"), <<>>, <<>>, td,
                              IF wr THEN {file} ELSE {})
             ELSE Provisioned(Success, dp.val, ip.val, td,
                              IF wr THEN {file} ELSE {})

provision_embedded(src, name, tdo, wr) ==
    IF tdo = "fail"
    THEN Provisioned(Err("Resource"), <<>>, <<>>, NoTempDir, {})
    ELSE LET tpath == IF tdo = "nonutf8" THEN NonUtf8(TempPath(name))
                      ELSE TempPath(name)
             td == TempDir(name, tpath)
             dp == to_str(tpath)
             inf_file_path == PathJoin(tpath, PathFromStr(src.filename))
             file == [path |-> inf_file_path, data |-> src.data]
             ip == to_str(inf_file_path)
         IN  IF ~dp.some
             THEN Provisioned(Err("InvalidParam"), <<>>, <<>>, td, {})
             ELSE IF ~wr
             THEN Provisioned(Err("Resource"), <<>>, <<>>, td, {})
             ELSE IF ~ip.some
             THEN Provisioned(Err("InvalidParam"), <<>>, <<>>, td, {file})
             ELSE Provisioned(Success, dp.val, ip.val, td, {file})

\* faulty variant: the path is used without looking whether it exists
provision_external_NoExistsCheck(src) ==
    LET par == parent(src.path)
        dp == IF par.some THEN to_str(par.val) ELSE None
        ip == to_str(src.path)
    IN  IF ~par.some \/ ~dp.some \/ ~ip.some
        THEN Provisioned(Err("InvalidParam"), <<>>, <<>>, NoTempDir, {})
        ELSE Provisioned(Success, dp.val, ip.val, NoTempDir, {})

provision_external(src) ==
    IF ~exists(src.path)
    THEN Provisioned(Err("NotFound"), <<>>, <<>>, NoTempDir, {})
    ELSE LET par == parent(src.path)
             dp == IF par.some THEN to_str(par.val) ELSE None
             ip == to_str(src.path)
         IN  IF ~par.some \/ ~dp.some \/ ~ip.some
             THEN Provisioned(Err("InvalidParam"), <<>>, <<>>, NoTempDir, {})
             ELSE Provisioned(Success, dp.val, ip.val, NoTempDir, {})

\* faulty variant: the provisioning step writes generated.inf itself
provision_generated_WritesInf(name, tdo) ==
    IF tdo = "fail"
    THEN Provisioned(Err("Resource"), <<>>, <<>>, NoTempDir, {})
    ELSE LET tpath == IF tdo = "nonutf8" THEN NonUtf8(TempPath(name))
                      ELSE TempPath(name)
             td == TempDir(name, tpath)
             dp == to_str(tpath)
             file == [path |-> PathJoin(tpath, PathFromStr(<<"generated.inf">>)),
                      data |-> <<>>]
         IN  IF ~dp.some
             THEN Provisioned(Err("InvalidParam"), <<>>, <<>>, td, {})
             ELSE Provisioned(Success, dp.val,
                              dp.val \o <<"\\", "generated.inf">>, td, {file})

provision_generated(name, tdo) ==
    IF tdo = "fail"
    THEN Provisioned(Err("Resource"), <<>>, <<>>, NoTempDir, {})
    ELSE LET tpath == IF tdo = "nonutf8" THEN NonUtf8(TempPath(name))
                      ELSE TempPath(name)
             td == TempDir(name, tpath)
             dp == to_str(tpath)
         IN  IF ~dp.some
             THEN Provisioned(Err("InvalidParam"), <<>>, <<>>, td, {})
             ELSE Provisioned(Success, dp.val,
                              dp.val \o <<"\\", "generated.inf">>, td, {})

provision(src, name, tdo, wr) ==
    CASE src.kind = "Embedded" -> provision_embedded(src, name, tdo, wr)
      [] src.kind = "External" -> provision_external(src)
      [] src.kind = "Generated" -> provision_generated(name, tdo)

Provision(r) ==
    /\ pc[r] = "Provisioning"
    /\ \E tdo \in Draw(env[r].temps, TempOutcomes),
          wr \in Draw(env[r].writes, BOOLEAN) :
         LET name == FreshTempName(dir_log)
             o == provision(installer[r].inf_source, name, tdo, wr)
             created ==
                 dir_log
                 \o (IF o.temp.held
                     THEN <<DirEvent("create", r, name, o.temp.path)>>
                     ELSE <<>>)
                 \o (IF o.written # {}
                     THEN <<DirEvent("write", r, name,
                                     (CHOOSE f \in o.written : TRUE).path)>>
                     ELSE <<>>)
         IN  IF o.err = Success
             THEN /\ temp_dir' = [temp_dir EXCEPT ![r] = o.temp]
                  /\ driver_path' = [driver_path EXCEPT ![r] = o.driver_path]
                  /\ inf_path' = [inf_path EXCEPT ![r] = o.inf_path]
                  /\ fs_dirs' = IF o.temp.held THEN fs_dirs \cup {name}
                                ELSE fs_dirs
                  /\ fs_files' = fs_files \cup o.written
                  /\ dir_log' = created
                  /\ pc' = [pc EXCEPT ![r] = "Preparing"]
                  /\ UNCHANGED result
             ELSE /\ temp_dir' = [temp_dir EXCEPT ![r] = Dropped(o.temp)]
                  /\ fs_dirs' = DirsAfterDrop(IF o.temp.held THEN fs_dirs \cup {name}
                                           ELSE fs_dirs, o.temp)
                  /\ fs_files' = FilesAfterDrop(fs_files \cup o.written, o.temp)
                  /\ dir_log' = LogAfterDrop(created, r, o.temp)
                  /\ result' = [result EXCEPT ![r] = Fail(o.err)]
                  /\ pc' = [pc EXCEPT ![r] = "Failed"]
                  /\ UNCHANGED <<driver_path, inf_path>>
    /\ UNCHANGED <<installer, devices, device, heap, calls, pred_evals, passes, log>>

(***************************************************************************)
(* prepare_and_install(): Preparing and Installing.                        *)
(***************************************************************************)
should_use_external_inf(src) == src.kind # "Generated"

\* faulty variant: the caller's external_inf is kept
PrepareOpts_KeepsCallerFlag(self) ==
    [self.options.prepare_opts EXCEPT !.driver_type = self.driver_type]

\* faulty variant: the driver type of the caller's prepare options is kept
PrepareOpts_KeepsCallerType(self) ==
    [self.options.prepare_opts EXCEPT
        !.external_inf = should_use_external_inf(self.inf_source)]

\* faulty variant: the overwrite starts from fresh prepare options
PrepareOpts_FromDefaults(self) ==
    [PrepareDriverOptionsDefault EXCEPT
        !.external_inf = should_use_external_inf(self.inf_source),
        !.driver_type = self.driver_type]

\* the prepare options as overwritten before the prepare call
PrepareOpts(self) ==
    [self.options.prepare_opts EXCEPT
        !.external_inf = should_use_external_inf(self.inf_source),
        !.driver_type = self.driver_type]

\* faulty variant: the TempDir is leaked on the way out
Exit_Leaks(r, res, next) ==
    /\ result' = [result EXCEPT ![r] = res]
    /\ pc' = [pc EXCEPT ![r] = next]
    /\ UNCHANGED <<temp_dir, fs_dirs, fs_files, dir_log>>

\* an early return out of prepare_and_install: the TempDir local is dropped
Exit(r, res, next) ==
    /\ result' = [result EXCEPT ![r] = res]
    /\ pc' = [pc EXCEPT ![r] = next]
    /\ temp_dir' = [temp_dir EXCEPT ![r] = Dropped(@)]
    /\ fs_dirs' = DirsAfterDrop(fs_dirs, temp_dir[r])
    /\ fs_files' = FilesAfterDrop(fs_files, temp_dir[r])
    /\ dir_log' = LogAfterDrop(dir_log, r, temp_dir[r])

\* the arguments prepare_driver hands to wdi_prepare_driver
PrepareArgs(d, path, inf_name, options) ==
    [device_info |-> to_raw(d), path |-> path, inf_name |-> inf_name,
     options |-> WdiOptionsPrepareDriver(options)]

\* the arguments install_driver hands to wdi_install_driver
InstallArgs(d, path, inf_name, options) ==
    [device_info |-> to_raw(d), path |-> path, inf_name |-> inf_name,
     options |-> WdiOptionsInstallDriver(options)]

\* CString::new on the two path strings of prepare_driver and install_driver
PathsToCString(path, inf_name) ==
    IF HasNul(path) \/ HasNul(inf_name) THEN Err("InvalidParam") ELSE Success

\* the warning logged when the caller's external_inf is overridden
OverrideWarning(self) ==
    IF self.options.prepare_opts.external_inf
           # should_use_external_inf(self.inf_source)
    THEN <<Log("warn", "Overriding prepare_opts.external_inf", 0)>>
    ELSE <<>>

\* faulty variant: a caller whose external_inf disagrees with the INF source
\* is turned away
PrepareCall_RejectsMismatch(r) ==
    /\ pc[r] = "Preparing"
    /\ log' = [log EXCEPT ![r] = @ \o OverrideWarning(installer[r])]
    /\ installer' = [installer EXCEPT
                       ![r].options.prepare_opts = PrepareOpts(installer[r])]
    /\ IF OverrideWarning(installer[r]) # <<>>
       THEN /\ Exit(r, Fail(Err("InvalidParam")), "Failed")
            /\ UNCHANGED calls
       ELSE /\ calls' = Append(calls,
                   NativeCall(r, "wdi_prepare_driver",
                       PrepareArgs(device[r].val, driver_path[r], inf_path[r],
                                   PrepareOpts(installer[r]))))
            /\ pc' = [pc EXCEPT ![r] = "InPrepare"]
            /\ UNCHANGED <<result, temp_dir, fs_dirs, fs_files, dir_log>>
    /\ UNCHANGED <<devices, device, driver_path, inf_path, heap, pred_evals, passes>>

PrepareCall(r) ==
    /\ pc[r] = "Preparing"
    /\ log' = [log EXCEPT ![r] = @ \o OverrideWarning(installer[r])]
    /\ installer' = [installer EXCEPT
                       ![r].options.prepare_opts = PrepareOpts(installer[r])]
    /\ IF PathsToCString(driver_path[r], inf_path[r]) # Success
       THEN /\ Exit(r, Fail(PathsToCString(driver_path[r], inf_path[r])),
                    "Failed")
            /\ UNCHANGED calls
       ELSE /\ calls' = Append(calls,
                   NativeCall(r, "wdi_prepare_driver",
                       PrepareArgs(device[r].val, driver_path[r], inf_path[r],
                                   PrepareOpts(installer[r]))))
            /\ pc' = [pc EXCEPT ![r] = "InPrepare"]
            /\ UNCHANGED <<result, temp_dir, fs_dirs, fs_files, dir_log>>
    /\ UNCHANGED <<devices, device, driver_path, inf_path, heap, pred_evals, passes>>

\* faulty variant: the code wdi_prepare_driver returned is not looked at
PrepareReturn_IgnoresError(r) ==
    /\ pc[r] = "InPrepare"
    /\ \E code \in NativeCodes :
         calls' = [calls EXCEPT ![Pending(r)] = Returned(@, code)]
    /\ pc' = [pc EXCEPT ![r] = "Installing"]
    /\ UNCHANGED <<installer, devices, device, driver_path, inf_path, heap,
                   pred_evals, passes, log, result, temp_dir, fs_dirs, fs_files,
                   dir_log>>

\* faulty variant: the TempDir is dropped as soon as wdi_prepare_driver has returned
PrepareReturn_DropsEarly(r) ==
    /\ pc[r] = "InPrepare"
    /\ \E code \in NativeCodes :
         /\ calls' = [calls EXCEPT ![Pending(r)] = Returned(@, code)]
         /\ IF from_code(code) # Success
            THEN Exit(r, Fail(from_code(code)), "Failed")
            ELSE Exit(r, result[r], "Installing")
    /\ UNCHANGED <<installer, devices, device, driver_path, inf_path, heap,
                   pred_evals, passes, log>>

PrepareReturn(r) ==
    /\ pc[r] = "InPrepare"
    /\ \E code \in Draw(env[r].prepare_codes, NativeCodes) :
         /\ calls' = [calls EXCEPT ![Pending(r)] = Returned(@, code)]
         /\ IF from_code(code) # Success
            THEN Exit(r, Fail(from_code(code)), "Failed")
            ELSE /\ pc' = [pc EXCEPT ![r] = "Installing"]
                 /\ UNCHANGED <<result, temp_dir, fs_dirs, fs_files, dir_log>>
    /\ UNCHANGED <<installer, devices, device, driver_path, inf_path, heap,
                   pred_evals, passes, log>>

\* faulty variant: native install is handed the directory in place of the INF
InstallCall_PassesDirAsInf(r) ==
    /\ pc[r] = "Installing"
    /\ IF PathsToCString(driver_path[r], inf_path[r]) # Success
       THEN /\ Exit(r, Fail(PathsToCString(driver_path[r], inf_path[r])),
                    "Failed")
            /\ UNCHANGED calls
       ELSE /\ calls' = Append(calls,
                   NativeCall(r, "wdi_install_driver",
                       InstallArgs(device[r].val, driver_path[r], driver_path[r],
                                   installer[r].options.install_opts)))
            /\ pc' = [pc EXCEPT ![r] = "InInstall"]
            /\ UNCHANGED <<result, temp_dir, fs_dirs, fs_files, dir_log>>
    /\ UNCHANGED <<installer, devices, device, driver_path, inf_path, heap,
                   pred_evals, passes, log>>

InstallCall(r) ==
    /\ pc[r] = "Installing"
    /\ IF PathsToCString(driver_path[r], inf_path[r]) # Success
       THEN /\ Exit(r, Fail(PathsToCString(driver_path[r], inf_path[r])),
                    "Failed")
            /\ UNCHANGED calls
       ELSE /\ calls' = Append(calls,
                   NativeCall(r, "wdi_install_driver",
                       InstallArgs(device[r].val, driver_path[r], inf_path[r],
                                   installer[r].options.install_opts)))
            /\ pc' = [pc EXCEPT ![r] = "InInstall"]
            /\ UNCHANGED <<result, temp_dir, fs_dirs, fs_files, dir_log>>
    /\ UNCHANGED <<installer, devices, device, driver_path, inf_path, heap,
                   pred_evals, passes, log>>

\* faulty variant: an install that timed out is tried again
InstallReturn_RetriesTimeout(r) ==
    /\ pc[r] = "InInstall"
    /\ \E code \in NativeCodes :
         /\ calls' = [calls EXCEPT ![Pending(r)] = Returned(@, code)]
         /\ IF from_code(code) = Err("Timeout")
            THEN /\ pc' = [pc EXCEPT ![r] = "Installing"]
                 /\ UNCHANGED <<result, temp_dir, fs_dirs, fs_files, dir_log>>
            ELSE IF from_code(code) # Success
            THEN Exit(r, Fail(from_code(code)), "Failed")
            ELSE /\ pc' = [pc EXCEPT ![r] = "Installed"]
                 /\ UNCHANGED <<result, temp_dir, fs_dirs, fs_files, dir_log>>
    /\ UNCHANGED <<installer, devices, device, driver_path, inf_path, heap,
                   pred_evals, passes, log>>

\* faulty variant: a failing install is reported as Other
InstallReturn_ReportsOther(r) ==
    /\ pc[r] = "InInstall"
    /\ \E code \in NativeCodes :
         /\ calls' = [calls EXCEPT ![Pending(r)] = Returned(@, code)]
         /\ IF from_code(code) # Success
            THEN Exit(r, Fail(Err("Other")), "Failed")
            ELSE /\ pc' = [pc EXCEPT ![r] = "Installed"]
                 /\ UNCHANGED <<result, temp_dir, fs_dirs, fs_files, dir_log>>
    /\ UNCHANGED <<installer, devices, device, driver_path, inf_path, heap,
                   pred_evals, passes, log>>

InstallReturn(r) ==
    /\ pc[r] = "InInstall"
    /\ \E code \in Draw(env[r].install_codes, NativeCodes) :
         /\ calls' = [calls EXCEPT ![Pending(r)] = Returned(@, code)]
         /\ IF from_code(code) # Success
            THEN Exit(r, Fail(from_code(code)), "Failed")
            ELSE /\ pc' = [pc EXCEPT ![r] = "Installed"]
                 /\ UNCHANGED <<result, temp_dir, fs_dirs, fs_files, dir_log>>
    /\ UNCHANGED <<installer, devices, device, driver_path, inf_path, heap,
                   pred_evals, passes, log>>

\* faulty variant: a blank record is returned instead of the resolved one
Finish_ReturnsBlank(r) ==
    /\ pc[r] = "Installed"
    /\ Exit(r, Ok(NoDev), "Done")
    /\ UNCHANGED <<installer, devices, device, driver_path, inf_path, heap,
                   calls, pred_evals, passes, log>>

\* faulty variant: the run waits forever instead of returning
Finish_NeverReturns(r) ==
    /\ pc[r] = "Installed"
    /\ UNCHANGED vars

\* drop(_temp_dir); Ok(device)
Finish(r) ==
    /\ pc[r] = "Installed"
    /\ Exit(r, Ok(device[r].val), "Done")
    /\ UNCHANGED <<installer, devices, device, driver_path, inf_path, heap,
                   calls, pred_evals, passes, log>>

(***************************************************************************)
(* A direct caller of the facade (wdi.rs).  It makes one use of it: it     *)
(* sets the log level, or prepares or installs a driver, or it enumerates  *)
(* the devices and queries the DeviceList until it drops it.               *)
(***************************************************************************)
\* the c_int range ends
IntMax == 2147483647

IntMin == -IntMax - 1

\* the codes a native call may return
CodeInputs == ((-MaxCode)..MaxCode) \cup {IntMin, IntMax}

LogLevel == {"Debug", "Info", "Warning", "Error", "None"}

\* impl From<LogLevel> for c_int
LogLevelToCInt(level) ==
    CASE level = "Debug" -> 0
      [] level = "Info" -> 1
      [] level = "Warning" -> 2
      [] level = "Error" -> 3
      [] level = "None" -> 4

CreateListOptionsInputs == { CreateListOptionsDefault, FindDeviceListOptions }

FacadeDevices ==
    { Device(1, 1, None, Some(<<"a">>)),
      Device(1, 1, None, Some(S_nul)),
      [Device(1, 1, None, Some(<<"a">>)) EXCEPT !.desc = Some(S_nul)] }

FacadePaths == { <<"C:", "\\", "drv">>, <<"C:", "NUL", "drv">> }

FacadeInfNames == { <<"dev.inf">>, <<"dev", "NUL", ".inf">> }

FacadePrepareOptions ==
    { PrepareDriverOptionsDefault,
      [PrepareDriverOptionsDefault EXCEPT !.vendor_name = Some(S_nul)],
      [PrepareDriverOptionsDefault EXCEPT !.cert_subject = Some(S_nul)] }

\* the variables only an installer run changes
installer_vars ==
    <<installer, device, temp_dir, driver_path, inf_path, result, fs_dirs,
      fs_files, pred_evals, passes, dir_log, log, env>>

Returns(r, op, val) ==
    client' = [client EXCEPT ![r].op = op, ![r].ret = val]

\* set_log_level
SetLogLevel(r) ==
    /\ pc[r] = "Client"
    /\ \E level \in LogLevel, code \in CodeInputs :
         /\ calls' = Append(calls,
                Returned(NativeCall(r, "wdi_set_log_level",
                                    [level |-> LogLevelToCInt(level)]), code))
         /\ Returns(r, "set_log_level", from_code(code))
    /\ pc' = [pc EXCEPT ![r] = "Done"]
    /\ UNCHANGED <<installer_vars, devices, heap>>

\* prepare_driver or install_driver, from the CString conversions to the
\* mapped return code
FacadeCall(r, fn, op, input, args) ==
    /\ pc[r] = "Client"
    /\ IF PathsToCString(input.path, input.inf_name) # Success
       THEN /\ client' = [client EXCEPT
                   ![r].op = op, ![r].input = input,
                   ![r].ret = PathsToCString(input.path, input.inf_name)]
            /\ UNCHANGED calls
       ELSE \E code \in NativeCodes :
              /\ calls' = Append(calls, Returned(NativeCall(r, fn, args), code))
              /\ client' = [client EXCEPT
                     ![r].op = op, ![r].input = input,
                     ![r].ret = from_code(code)]
    /\ pc' = [pc EXCEPT ![r] = "Done"]
    /\ UNCHANGED <<installer_vars, devices, heap>>

ClientPrepareDriver(r) ==
    \E d \in FacadeDevices, path \in FacadePaths, inf_name \in FacadeInfNames,
       options \in FacadePrepareOptions :
        FacadeCall(r, "wdi_prepare_driver", "prepare_driver",
                   [device |-> d, path |-> path, inf_name |-> inf_name,
                    strings |-> <<options.vendor_name, options.device_guid,
                                  options.cert_subject>>],
                   PrepareArgs(d, path, inf_name, options))

ClientInstallDriver(r) ==
    \E d \in FacadeDevices, path \in FacadePaths, inf_name \in FacadeInfNames,
       options \in InstallOptionsInputs :
        FacadeCall(r, "wdi_install_driver", "install_driver",
                   [device |-> d, path |-> path, inf_name |-> inf_name,
                    strings |-> <<>>],
                   InstallArgs(d, path, inf_name, options))

\* create_list, called directly
\* faulty variant: the pointer a failing wdi_create_list left is wrapped too
ClientCreateList_WrapsLeftover(r) ==
    /\ pc[r] = "Client"
    /\ \E options \in CreateListOptionsInputs, code \in NativeCodes,
          cat \in Catalogs :
         /\ code # 0 => cat \in Leftovers
         /\ LET base == Brk(heap)
                call == NativeCall(r, "wdi_create_list",
                            [options |-> WdiOptionsCreateList(options)])
            IN  /\ heap' = heap @@ NativeList(cat, base)
                /\ calls' = Append(calls, Returned(call, code))
                /\ devices' = [devices EXCEPT
                                  ![r] = DeviceList(NativeHead(cat, base))]
                /\ Returns(r, "create_list", from_code(code))
                /\ pc' = [pc EXCEPT ![r] = "Holding"]
    /\ UNCHANGED installer_vars

ClientCreateList(r) ==
    /\ pc[r] = "Client"
    /\ \E options \in CreateListOptionsInputs, code \in NativeCodes,
          cat \in Catalogs :
         /\ code # 0 => cat \in Leftovers
         /\ LET base == Brk(heap)
                call == NativeCall(r, "wdi_create_list",
                            [options |-> WdiOptionsCreateList(options)])
            IN  /\ heap' = heap @@ NativeList(cat, base)
                /\ calls' = Append(calls, Returned(call, code))
                /\ IF from_code(code) # Success
                   THEN /\ Returns(r, "create_list", from_code(code))
                        /\ pc' = [pc EXCEPT ![r] = "Done"]
                        /\ UNCHANGED devices
                   ELSE /\ devices' = [devices EXCEPT
                                         ![r] = DeviceList(NativeHead(cat, base))]
                        /\ Returns(r, "create_list", Success)
                        /\ pc' = [pc EXCEPT ![r] = "Holding"]
    /\ UNCHANGED installer_vars

\* a query on the DeviceList the caller holds
Query(r, op, val) ==
    /\ pc[r] = "Holding"
    /\ Returns(r, op, val)
    /\ UNCHANGED <<installer_vars, pc, devices, heap, calls>>

ClientLen(r) == Query(r, "len", len(heap, devices[r]))

ClientIsEmpty(r) == Query(r, "is_empty", is_empty(devices[r]))

ClientGet(r) ==
    \E index \in 0..(MaxCatalog + 1) :
        Query(r, "get", [index |-> index, item |-> get(heap, devices[r], index)])

ClientFromVidPid(r) ==
    \E vid \in {1, 2}, pid \in {1, 2} :
        Query(r, "from_vid_pid",
              [vid |-> vid, pid |-> pid,
               items |-> from_vid_pid(heap, devices[r], vid, pid)])

\* DeviceList::iter: a new DeviceIter at the head
ClientIter(r) ==
    /\ pc[r] = "Holding"
    /\ client[r].iters < MaxIters
    /\ client' = [client EXCEPT ![r].iterating = TRUE,
                                ![r].current = devices[r].head,
                                ![r].yielded = <<>>,
                                ![r].iters = @ + 1]
    /\ UNCHANGED <<installer_vars, pc, devices, heap, calls>>

\* DeviceIter::next, while the list is held
ClientIterNext(r) ==
    /\ pc[r] = "Holding"
    /\ client[r].iterating
    /\ Len(client[r].yielded) < MaxCatalog + 2
    /\ IF client[r].current = NullAddr
       THEN client' = [client EXCEPT ![r].yielded = Append(@, None)]
       ELSE client' = [client EXCEPT
                ![r].yielded =
                    Append(@, Some(from_raw(heap[client[r].current].info))),
                ![r].current = heap[client[r].current].next]
    /\ UNCHANGED <<installer_vars, pc, devices, heap, calls>>

\* the DeviceList goes out of scope
ClientDrop(r) ==
    /\ pc[r] = "Holding"
    /\ devices' = [devices EXCEPT ![r] = [@ EXCEPT !.held = FALSE,
                                                   !.dropped = TRUE]]
    /\ IF DropCallsDestroy(devices[r])
       THEN /\ heap' = wdi_destroy_list(heap, devices[r].head)
            /\ calls' = Append(calls,
                   Returned(NativeCall(r, "wdi_destroy_list",
                                       [list |-> devices[r].head]), 0))
       ELSE UNCHANGED <<heap, calls>>
    /\ pc' = [pc EXCEPT ![r] = "Done"]
    /\ UNCHANGED <<installer_vars, client>>

(***************************************************************************)
(* The specification.                                                      *)
(***************************************************************************)
Next ==
    \/ \E r \in Runs : WithInfData(r) /\ UNCHANGED <<client, env>>
    \/ \E r \in Runs : WithInfFile(r) /\ UNCHANGED <<client, env>>
    \/ \E r \in Runs : WithDriverType(r) /\ UNCHANGED <<client, env>>
    \/ \E r \in Runs : WithPrepareOptions(r) /\ UNCHANGED <<client, env>>
    \/ \E r \in Runs : WithInstallOptions(r) /\ UNCHANGED <<client, env>>
    \/ \E r \in Runs : Install(r) /\ UNCHANGED <<client, env>>
    \/ \E r \in Runs : FindDeviceSpecific(r) /\ UNCHANGED <<client, env>>
    \/ \E r \in Runs : CreateList(r) /\ UNCHANGED <<client, env>>
    \/ \E r \in Runs : SelectVidPid(r) /\ UNCHANGED <<client, env>>
    \/ \E r \in Runs : SelectFirst(r) /\ UNCHANGED <<client, env>>
    \/ \E r \in Runs : CheckExistingDriver(r) /\ UNCHANGED <<client, env>>
    \/ \E r \in Runs : Provision(r) /\ UNCHANGED <<client, env>>
    \/ \E r \in Runs : PrepareCall(r) /\ UNCHANGED <<client, env>>
    \/ \E r \in Runs : PrepareReturn(r) /\ UNCHANGED <<client, env>>
    \/ \E r \in Runs : InstallCall(r) /\ UNCHANGED <<client, env>>
    \/ \E r \in Runs : InstallReturn(r) /\ UNCHANGED <<client, env>>
    \/ \E r \in Runs : Finish(r) /\ UNCHANGED <<client, env>>

Spec == Init /\ [][Next]_vars

\* a direct caller of the facade: no installer is involved
FacadeInit ==
    /\ installer = [r \in {1} |-> new(Specific(NoDev))]
    /\ pc = [r \in {1} |-> "Client"]
    /\ env = [r \in {1} |-> AnyEnv]
    /\ InitState({1})

FacadeNext ==
    \/ \E r \in Runs : SetLogLevel(r)
    \/ \E r \in Runs : ClientPrepareDriver(r)
    \/ \E r \in Runs : ClientInstallDriver(r)
    \/ \E r \in Runs : ClientCreateList(r)
    \/ \E r \in Runs : ClientLen(r)
    \/ \E r \in Runs : ClientIsEmpty(r)
    \/ \E r \in Runs : ClientGet(r)
    \/ \E r \in Runs : ClientFromVidPid(r)
    \/ \E r \in Runs : ClientIter(r)
    \/ \E r \in Runs : ClientIterNext(r)
    \/ \E r \in Runs : ClientDrop(r)

FacadeSpec == FacadeInit /\ [][FacadeNext]_vars

(***************************************************************************)
(* A caller that constructs an installer and chains builder steps on it.   *)
(* client records the last step: its name, its argument and, for a builder *)
(* step, the installer the step consumed.                                  *)
(***************************************************************************)
VendorIds == {1, 4660}

ProductIds == {1, 22136}

Construct(r, op, input, made) ==
    /\ pc[r] = "New"
    /\ installer' = [installer EXCEPT ![r] = made]
    /\ client' = [client EXCEPT ![r].op = op, ![r].input = input]
    /\ pc' = [pc EXCEPT ![r] = "Constructed"]
    /\ UNCHANGED <<devices, device, temp_dir, driver_path, inf_path, result,
                   heap, fs_dirs, fs_files, calls, pred_evals, passes, dir_log, log,
                   env>>

ConstructNew(r) ==
    \E s \in Selectors : Construct(r, "new", s, new(s))

ConstructForDevice(r) ==
    \E vid \in VendorIds, pid \in ProductIds :
        Construct(r, "for_device", <<vid, pid>>, for_device(vid, pid))

ConstructForSpecificDevice(r) ==
    \E d \in SpecificDevices :
        Construct(r, "for_specific_device", d, for_specific_device(d))

\* CreateListOptions::default()
DefaultCreateListOptions(r) ==
    /\ pc[r] = "New"
    /\ client' = [client EXCEPT ![r].op = "CreateListOptions::default",
                                ![r].ret = CreateListOptionsDefault]
    /\ pc' = [pc EXCEPT ![r] = "Done"]
    /\ UNCHANGED <<installer_vars, devices, heap, calls>>

Chain(r, op, input, next) ==
    /\ pc[r] = "Constructed"
    /\ installer' = [installer EXCEPT ![r] = next]
    /\ client' = [client EXCEPT ![r].op = op, ![r].input = input,
                                ![r].ret = installer[r]]
    /\ UNCHANGED <<pc, devices, device, temp_dir, driver_path, inf_path,
                   result, heap, fs_dirs, fs_files, calls, pred_evals, passes,
                   dir_log, log, env>>

ChainInfData(r) ==
    \E f \in InfFilenames :
        Chain(r, "with_inf_data", <<InfData, f>>,
              with_inf_data(installer[r], InfData, f))

ChainInfFile(r) ==
    \E p \in InfFiles :
        Chain(r, "with_inf_file", p, with_inf_file(installer[r], p))

ChainDriverType(r) ==
    \E t \in DriverType :
        Chain(r, "with_driver_type", t, with_driver_type(installer[r], t))

ChainPrepareOptions(r) ==
    \E o \in PrepareOptionsInputs :
        Chain(r, "with_prepare_options", o,
              with_prepare_options(installer[r], o))

ChainInstallOptions(r) ==
    \E o \in InstallOptionsInputs :
        Chain(r, "with_install_options", o,
              with_install_options(installer[r], o))

BuilderInit ==
    /\ installer = [r \in {1} |-> new(Specific(NoDev))]
    /\ pc = [r \in {1} |-> "New"]
    /\ env = [r \in {1} |-> AnyEnv]
    /\ InitState({1})

BuilderNext ==
    \/ \E r \in Runs : ConstructNew(r)
    \/ \E r \in Runs : ConstructForDevice(r)
    \/ \E r \in Runs : ConstructForSpecificDevice(r)
    \/ \E r \in Runs : DefaultCreateListOptions(r)
    \/ \E r \in Runs : ChainInfData(r)
    \/ \E r \in Runs : ChainInfFile(r)
    \/ \E r \in Runs : ChainDriverType(r)
    \/ \E r \in Runs : ChainPrepareOptions(r)
    \/ \E r \in Runs : ChainInstallOptions(r)

BuilderSpec == BuilderInit /\ [][BuilderNext]_vars

(***************************************************************************)
(* Two install() runs, one after the other, of installers that were built  *)
(* alike except for the external_inf handed to with_prepare_options, and   *)
(* that are given the same answers by the native library and the file      *)
(* system.                                                                 *)
(***************************************************************************)
PairSelectors ==
    { VidPid(1, 1), First("pid_is_2"),
      Specific(Device(1, 1, None, Some(<<"a">>))) }

PairSources ==
    { Generated, Embedded(InfData, <<"dev.inf">>), External(ExtGood),
      External(ExtMissing) }

PairCatalogs ==
    { <<>>,
      <<WdiDeviceInfo(1, 1, NullPtr, Ptr(<<"a">>))>>,
      <<WdiDeviceInfo(2, 2, NullPtr, Ptr(<<"b">>)),
        WdiDeviceInfo(1, 1, NullPtr, Ptr(<<"a">>))>>,
      <<WdiDeviceInfo(1, 1, Ptr(S_WinUSBv2), Ptr(<<"c">>))>> }

\* what wdi_create_list may answer: a failing call leaves a leftover at most
Enumerations ==
    { e \in {0, -7} \X PairCatalogs : e[1] # 0 => e[2] \in Leftovers }

\* one answer to every question a run may ask
Scripts ==
    { [locked |-> FALSE, create_codes |-> Only({e[1]}),
       catalogs |-> Only({e[2]}), temps |-> Only({t}), writes |-> Only({w}),
       prepare_codes |-> Only({p}), install_codes |-> Only({i})] :
        e \in Enumerations, t \in TempOutcomes, w \in BOOLEAN,
        p \in {0, -9}, i \in {0, -13} }

\* the builder chain of the caller: the INF source, then the prepare options
Configured(sel, src, flag) ==
    LET made == new(sel)
        sourced == CASE src.kind = "Generated" -> made
                     [] src.kind = "Embedded" ->
                            with_inf_data(made, src.data, src.filename)
                     [] src.kind = "External" -> with_inf_file(made, src.path)
    IN  with_prepare_options(sourced,
            [PrepareDriverOptionsDefault EXCEPT !.external_inf = flag])

PairInit ==
    /\ \E sel \in PairSelectors, src \in PairSources, flag \in BOOLEAN :
          installer = (1 :> Configured(sel, src, flag))
                      @@ (2 :> Configured(sel, src, ~flag))
    /\ \E s \in Scripts : env = [r \in {1, 2} |-> s]
    /\ pc = [r \in {1, 2} |-> "Building"]
    /\ InitState({1, 2})

\* the second run starts when the first has returned
Turn(r) == \A q \in Runs : q < r => pc[q] \in {"Done", "Failed"}

PairNext ==
    \/ \E r \in Runs : Turn(r) /\ Install(r) /\ UNCHANGED <<client, env>>
    \/ \E r \in Runs : Turn(r) /\ FindDeviceSpecific(r) /\ UNCHANGED <<client, env>>
    \/ \E r \in Runs : Turn(r) /\ CreateList(r) /\ UNCHANGED <<client, env>>
    \/ \E r \in Runs : Turn(r) /\ SelectVidPid(r) /\ UNCHANGED <<client, env>>
    \/ \E r \in Runs : Turn(r) /\ SelectFirst(r) /\ UNCHANGED <<client, env>>
    \/ \E r \in Runs : Turn(r) /\ CheckExistingDriver(r) /\ UNCHANGED <<client, env>>
    \/ \E r \in Runs : Turn(r) /\ Provision(r) /\ UNCHANGED <<client, env>>
    \/ \E r \in Runs : Turn(r) /\ PrepareCall(r) /\ UNCHANGED <<client, env>>
    \/ \E r \in Runs : Turn(r) /\ PrepareReturn(r) /\ UNCHANGED <<client, env>>
    \/ \E r \in Runs : Turn(r) /\ InstallCall(r) /\ UNCHANGED <<client, env>>
    \/ \E r \in Runs : Turn(r) /\ InstallReturn(r) /\ UNCHANGED <<client, env>>
    \/ \E r \in Runs : Turn(r) /\ Finish(r) /\ UNCHANGED <<client, env>>

PairSpec == PairInit /\ [][PairNext]_vars

(***************************************************************************)
(* Two install() runs at the same time, their steps interleaved at will.   *)
(* The callers either serialise install() with a lock per device identity  *)
(* (VID/PID), taken before install() and given back when it has returned,  *)
(* or use no lock at all.                                                  *)
(***************************************************************************)
ConcSelectors ==
    { VidPid(1, 1), VidPid(2, 2),
      Specific(Device(1, 1, None, Some(<<"a">>))) }

ConcSources ==
    { Generated, Embedded(InfData, <<"dev.inf">>), External(ExtGood) }

ConcCatalog ==
    <<WdiDeviceInfo(1, 1, NullPtr, Ptr(<<"a">>)),
      WdiDeviceInfo(2, 2, NullPtr, Ptr(<<"b">>))>>

ConcEnv(locked) ==
    [locked |-> locked, create_codes |-> Only({0}),
     catalogs |-> Only({ConcCatalog}), temps |-> Only({"ok", "fail"}),
     writes |-> Only({TRUE}), prepare_codes |-> Only({0, -9}),
     install_codes |-> Only({0})]

ConcInit ==
    /\ installer \in [{1, 2} -> { Configured(sel, src, FALSE) :
                                   sel \in ConcSelectors, src \in ConcSources }]
    /\ \E locked \in BOOLEAN : env = [r \in {1, 2} |-> ConcEnv(locked)]
    /\ pc = [r \in {1, 2} |-> "Building"]
    /\ InitState({1, 2})

\* a run between the call of install() and its return
Active(r) == pc[r] \notin {"Building", "Done", "Failed"}

\* the device identity the caller of run r locks
LockKey(r) ==
    LET sel == installer[r].device_selector
    IN  CASE sel.kind = "VidPid" -> <<sel.vid, sel.pid>>
          [] sel.kind = "Specific" -> <<sel.dev.vid, sel.dev.pid>>

\* the lock of run r's device is free, or the caller of run r uses none
LockAvailable(r) ==
    env[r].locked =>
        \A q \in Runs \ {r} :
            ~(env[q].locked /\ Active(q) /\ LockKey(q) = LockKey(r))

LockedInstall(r) == LockAvailable(r) /\ Install(r)

ConcNext ==
    \/ \E r \in Runs : LockedInstall(r) /\ UNCHANGED <<client, env>>
    \/ \E r \in Runs : FindDeviceSpecific(r) /\ UNCHANGED <<client, env>>
    \/ \E r \in Runs : CreateList(r) /\ UNCHANGED <<client, env>>
    \/ \E r \in Runs : SelectVidPid(r) /\ UNCHANGED <<client, env>>
    \/ \E r \in Runs : CheckExistingDriver(r) /\ UNCHANGED <<client, env>>
    \/ \E r \in Runs : Provision(r) /\ UNCHANGED <<client, env>>
    \/ \E r \in Runs : PrepareCall(r) /\ UNCHANGED <<client, env>>
    \/ \E r \in Runs : PrepareReturn(r) /\ UNCHANGED <<client, env>>
    \/ \E r \in Runs : InstallCall(r) /\ UNCHANGED <<client, env>>
    \/ \E r \in Runs : InstallReturn(r) /\ UNCHANGED <<client, env>>
    \/ \E r \in Runs : Finish(r) /\ UNCHANGED <<client, env>>

ConcSpec == ConcInit /\ [][ConcNext]_vars

(***************************************************************************)
(* One install() run that keeps going: every native call and every file    *)
(* system operation returns, and the code between them runs on.  The       *)
(* caller is not obliged to ever call install().                           *)
(***************************************************************************)
RunStep(r) ==
    /\ \/ FindDeviceSpecific(r)
       \/ CreateList(r)
       \/ SelectVidPid(r)
       \/ SelectFirst(r)
       \/ CheckExistingDriver(r)
       \/ Provision(r)
       \/ PrepareCall(r)
       \/ PrepareReturn(r)
       \/ InstallCall(r)
       \/ InstallReturn(r)
       \/ Finish(r)
    /\ UNCHANGED <<client, env>>

\* one configured installer, about to be consumed by install()
LiveInit ==
    /\ installer \in [{1} -> { Configured(sel, src, FALSE) :
                                  sel \in PairSelectors, src \in PairSources }]
    /\ pc = [r \in {1} |-> "Building"]
    /\ env = [r \in {1} |-> AnyEnv]
    /\ InitState({1})

LiveNext ==
    \/ \E r \in Runs : Install(r) /\ UNCHANGED <<client, env>>
    \/ \E r \in Runs : FindDeviceSpecific(r) /\ UNCHANGED <<client, env>>
    \/ \E r \in Runs : CreateList(r) /\ UNCHANGED <<client, env>>
    \/ \E r \in Runs : SelectVidPid(r) /\ UNCHANGED <<client, env>>
    \/ \E r \in Runs : SelectFirst(r) /\ UNCHANGED <<client, env>>
    \/ \E r \in Runs : CheckExistingDriver(r) /\ UNCHANGED <<client, env>>
    \/ \E r \in Runs : Provision(r) /\ UNCHANGED <<client, env>>
    \/ \E r \in Runs : PrepareCall(r) /\ UNCHANGED <<client, env>>
    \/ \E r \in Runs : PrepareReturn(r) /\ UNCHANGED <<client, env>>
    \/ \E r \in Runs : InstallCall(r) /\ UNCHANGED <<client, env>>
    \/ \E r \in Runs : InstallReturn(r) /\ UNCHANGED <<client, env>>
    \/ \E r \in Runs : Finish(r) /\ UNCHANGED <<client, env>>

\* every native call and filesystem operation of the run returns: a step of
\* install() that can be taken is taken
LiveSpec == LiveInit /\ [][LiveNext]_vars /\ WF_vars(RunStep(1))

(***************************************************************************)
(* What the properties below read off the records of a run.                *)
(***************************************************************************)
CallsOf(r, fn) ==
    { i \in 1..Len(calls) : calls[i].run = r /\ calls[i].fn = fn }

DirEvents(r, ev) ==
    { i \in 1..Len(dir_log) : dir_log[i].run = r /\ dir_log[i].ev = ev }

Logged(r, msg) == \E i \in 1..Len(log[r]) : log[r][i].msg = msg

Min(S) == CHOOSE x \in S : \A y \in S : x <= y

\* the string begins with the six characters W i n U S B
HasWinUSBPrefix(s) ==
    /\ Len(s) >= 6
    /\ s[1] = "W" /\ s[2] = "i" /\ s[3] = "n"
    /\ s[4] = "U" /\ s[5] = "S" /\ s[6] = "B"

DriverAbsent(r) == device[r].some /\ ~device[r].val.driver.some

\* the run has created no directory, written no file and made no
\* prepare or install call
NothingProvisioned(r) ==
    /\ DirEvents(r, "create") = {}
    /\ DirEvents(r, "write") = {}
    /\ ~temp_dir[r].held
    /\ CallsOf(r, "wdi_prepare_driver") = {}
    /\ CallsOf(r, "wdi_install_driver") = {}

PhaseOrder ==
    { <<"Building", "Selecting">>,
      <<"Selecting", "Listed">>, <<"Selecting", "ConflictChecking">>,
      <<"Listed", "ConflictChecking">>,
      <<"ConflictChecking", "Provisioning">>,
      <<"Provisioning", "Preparing">>,
      <<"Preparing", "InPrepare">>,
      <<"InPrepare", "Installing">>,
      <<"Installing", "InInstall">>,
      <<"InInstall", "Installed">>,
      <<"Installed", "Done">> }
    \cup { <<p, "Failed">> : p \in {"Selecting", "Listed", "ConflictChecking",
                                   "Provisioning", "Preparing", "InPrepare",
                                   "Installing", "InInstall"} }

AfterConflictCheck ==
    {"Provisioning", "Preparing", "InPrepare", "Installing", "InInstall",
     "Installed", "Done"}

(***************************************************************************)
(* C1: in every install() run the steps occur only in the order Selecting, *)
(* ConflictChecking, Provisioning, native prepare, native install, and     *)
(* never overlap: provisioning starts only with the conflict check passed  *)
(* (the resolved device has no driver), native prepare is called only      *)
(* after provisioning gave the directory and INF path, native install is   *)
(* called only after native prepare returned 0, and at most one native     *)
(* call of the run is in progress, the last one it made.                   *)
(***************************************************************************)
C1_Ordered(r) ==
    /\ (pc[r] \in AfterConflictCheck \/ ~NothingProvisioned(r))
          => DriverAbsent(r)
    /\ CallsOf(r, "wdi_prepare_driver") # {}
          => /\ driver_path[r] # <<>> /\ inf_path[r] # <<>>
             /\ installer[r].inf_source.kind # "External"
                   => DirEvents(r, "create") # {}
             /\ installer[r].device_selector.kind # "Specific"
                   => \E j \in CallsOf(r, "wdi_create_list") :
                         /\ calls[j].done /\ calls[j].code = 0
                         /\ \A i \in CallsOf(r, "wdi_prepare_driver") : j < i
    /\ \A i \in CallsOf(r, "wdi_install_driver") :
          \E j \in CallsOf(r, "wdi_prepare_driver") :
             j < i /\ calls[j].done /\ calls[j].code = 0
    /\ \A i \in 1..Len(calls) :
          (calls[i].run = r /\ ~calls[i].done)
             => /\ pc[r] \in {"InPrepare", "InInstall"}
                /\ \A j \in 1..Len(calls) : calls[j].run = r => j <= i

C1_PhaseOrder ==
    /\ [](\A r \in Runs : C1_Ordered(r))
    /\ [][\A r \in Runs : pc'[r] # pc[r] => <<pc[r], pc'[r]>> \in PhaseOrder]_vars

C1_Witness ==
    \E r \in Runs :
        /\ pc[r] = "Done"
        /\ CallsOf(r, "wdi_create_list") # {}
        /\ DirEvents(r, "create") # {}
        /\ CallsOf(r, "wdi_install_driver") # {}

(***************************************************************************)
(* C2: if the resolved device's driver field is present and begins with    *)
(* "WinUSB", install() returns Exists and the run creates no temporary     *)
(* directory, writes no INF file and calls neither native prepare nor      *)
(* native install.                                                         *)
(***************************************************************************)
C2_WinUSBShortCircuit ==
    \A r \in Runs :
        (/\ device[r].some
         /\ device[r].val.driver.some
         /\ HasWinUSBPrefix(device[r].val.driver.val))
        => /\ pc[r] \in {"ConflictChecking", "Failed"}
           /\ pc[r] = "Failed" => result[r] = Fail(Err("Exists"))
           /\ NothingProvisioned(r)

C2_Witness ==
    \E r \in Runs :
        /\ pc[r] = "Failed"
        /\ result[r] = Fail(Err("Exists"))
        /\ installer[r].device_selector.kind = "VidPid"
        /\ device[r] = Some(Device(1, 1, Some(S_WinUSBv2), Some(<<"c">>)))

(***************************************************************************)
(* C3: for every resolved device whose driver field is present with a      *)
(* value not beginning with "WinUSB" (the empty string included),          *)
(* install() returns Exists, the error of the WinUSB case, and calls       *)
(* neither native prepare nor native install; only a device whose driver   *)
(* field is absent proceeds to Provisioning.                               *)
(***************************************************************************)
C3_ForeignDriverExists ==
    \A r \in Runs :
        /\ (/\ device[r].some
            /\ device[r].val.driver.some
            /\ ~HasWinUSBPrefix(device[r].val.driver.val))
           => /\ pc[r] \in {"ConflictChecking", "Failed"}
              /\ pc[r] = "Failed" => result[r] = Fail(Err("Exists"))
              /\ CallsOf(r, "wdi_prepare_driver") = {}
              /\ CallsOf(r, "wdi_install_driver") = {}
        /\ pc[r] \in AfterConflictCheck => DriverAbsent(r)

C3_Witness ==
    \E r \in Runs :
        /\ pc[r] = "Failed"
        /\ result[r] = Fail(Err("Exists"))
        /\ device[r].some
        /\ device[r].val.driver = Some(<<>>)

(***************************************************************************)
(* C4: whenever native prepare is called by install(), the external_inf    *)
(* flag it receives is 0 if the INF source is Generated and 1 if it is     *)
(* Embedded or External, whatever external_inf the caller configured.      *)
(***************************************************************************)
C4_ExternalInfDerived ==
    \A i \in 1..Len(calls) :
        calls[i].fn = "wdi_prepare_driver"
        => calls[i].args.options.external_inf =
              (IF installer[calls[i].run].inf_source.kind = "Generated"
               THEN 0 ELSE 1)

\* the caller configured external_inf = true with a Generated source
C4_Witness ==
    \E r \in Runs :
        /\ installer[r].inf_source.kind = "Generated"
        /\ Logged(r, "Overriding prepare_opts.external_inf")
        /\ \E i \in CallsOf(r, "wdi_prepare_driver") :
              calls[i].args.options.external_inf = 0

(***************************************************************************)
(* C5: for an Embedded or Generated INF source, the temporary directory    *)
(* created in Provisioning (and, for Embedded, the INF file written)       *)
(* exists from the start of the native prepare call until the native       *)
(* install call has returned; it is not released in between.               *)
(***************************************************************************)
C5_TempSurvives ==
    \A r \in Runs :
        (/\ pc[r] \in {"InPrepare", "Installing", "InInstall", "Installed"}
         /\ installer[r].inf_source.kind \in {"Embedded", "Generated"})
        => /\ temp_dir[r].held
           /\ temp_dir[r].name \in fs_dirs
           /\ DirEvents(r, "create") # {}
           /\ DirEvents(r, "release") = {}
           /\ installer[r].inf_source.kind = "Embedded"
                 => \E f \in fs_files :
                       /\ f.data = installer[r].inf_source.data
                       /\ to_str(f.path) = Some(inf_path[r])

C5_Witness ==
    \E r \in Runs :
        /\ pc[r] = "Installed"
        /\ installer[r].inf_source.kind = "Embedded"
        /\ temp_dir[r].held
        /\ fs_files # {}

(***************************************************************************)
(* C6: on every exit path of install() each temporary directory the run    *)
(* created has been released exactly once by the time install() returns:   *)
(* none outlives the run and none is released twice.                       *)
(***************************************************************************)
C6_ReleasedExactlyOnce ==
    \A r \in Runs :
        /\ \A i \in DirEvents(r, "create") :
              Cardinality({ j \in DirEvents(r, "release") :
                              dir_log[j].dir = dir_log[i].dir }) <= 1
        /\ \A j \in DirEvents(r, "release") :
              \E i \in DirEvents(r, "create") :
                 i < j /\ dir_log[i].dir = dir_log[j].dir
        /\ pc[r] \in {"Done", "Failed"}
              => /\ ~temp_dir[r].held
                 /\ \A i \in DirEvents(r, "create") :
                       /\ dir_log[i].dir \notin fs_dirs
                       /\ \E j \in DirEvents(r, "release") :
                             dir_log[j].dir = dir_log[i].dir

\* the INF write failed after the directory was created
C6_Witness ==
    \E r \in Runs :
        /\ pc[r] = "Failed"
        /\ result[r] = Fail(Err("Resource"))
        /\ Cardinality(DirEvents(r, "create")) = 1
        /\ Cardinality(DirEvents(r, "release")) = 1

(***************************************************************************)
(* C7, as claimed: for every DeviceList returned by create_list,           *)
(* wdi_destroy_list is invoked exactly once over the instance's lifetime,  *)
(* whatever the list's length, the empty list included.                    *)
(***************************************************************************)
C7_DestroyedExactlyOnce ==
    \A r \in Runs :
        /\ Cardinality(CallsOf(r, "wdi_destroy_list")) <= 1
        /\ devices[r].dropped
              => Cardinality(CallsOf(r, "wdi_destroy_list")) = 1

(***************************************************************************)
(* C7, amended: for every DeviceList returned by create_list,              *)
(* wdi_destroy_list is invoked at most once and only when the DeviceList   *)
(* is dropped: exactly once, on the list's head, when the list is not      *)
(* empty, and not at all when it is empty (its head is null), however      *)
(* many Device records were copied out of it.                              *)
(***************************************************************************)
C7_DestroyedOnceUnlessEmpty ==
    \A r \in Runs :
        LET destroys == CallsOf(r, "wdi_destroy_list")
        IN  /\ Cardinality(destroys) <= 1
            /\ ~devices[r].dropped => destroys = {}
            /\ devices[r].dropped
                  => /\ Cardinality(destroys) =
                           (IF devices[r].head = NullAddr THEN 0 ELSE 1)
                     /\ \A i \in destroys :
                           calls[i].args.list = devices[r].head
                     /\ devices[r].head \notin DOMAIN heap

\* a list of three records, iterated more than once, destroyed once
C7_Witness ==
    \E r \in Runs :
        /\ devices[r].dropped
        /\ devices[r].head # NullAddr
        /\ Cardinality(CallsOf(r, "wdi_destroy_list")) = 1
        /\ device[r].some
        /\ \E i \in 1..Len(log[r]) :
              log[r][i].msg = "Found USB devices" /\ log[r][i].n = 3

(***************************************************************************)
(* C8: with a VidPid(vid, pid) selector, for every enumerated catalog      *)
(* holding at least one record with that vid and pid, Selecting succeeds   *)
(* and resolves the matching record of lowest index in enumeration order;  *)
(* more than one match never causes a failure.                             *)
(***************************************************************************)
C8_FirstMatch ==
    [][\A r \in Runs :
        (/\ pc[r] = "Listed"
         /\ pc'[r] # "Listed"
         /\ installer[r].device_selector.kind = "VidPid")
        => LET cat == IterCollect(heap, devices[r].head)
               m == { i \in 1..Len(cat) :
                        /\ cat[i].vid = installer[r].device_selector.vid
                        /\ cat[i].pid = installer[r].device_selector.pid }
           IN  m # {} => /\ pc'[r] = "ConflictChecking"
                         /\ result'[r] = NoResult
                         /\ device'[r] = Some(cat[Min(m)])]_vars

\* several records matched, and the one found was not the only candidate
C8_Witness ==
    \E r \in Runs :
        /\ installer[r].device_selector.kind = "VidPid"
        /\ pc[r] = "ConflictChecking"
        /\ Logged(r, "Multiple USB devices found with VID:PID")
        /\ device[r].some
        /\ \E i \in 1..Len(log[r]) :
              log[r][i].msg = "Found USB devices" /\ log[r][i].n = 3

(***************************************************************************)
(* C9: with a Predicate (First) selector, the predicate is evaluated on    *)
(* the catalog's records in enumeration order, the first record for which  *)
(* it returns true is selected, and the predicate is never evaluated on a  *)
(* record after that first match.                                          *)
(***************************************************************************)
C9_PredicateOrder ==
    [][\A r \in Runs :
        (/\ pc[r] = "Listed"
         /\ pc'[r] # "Listed"
         /\ installer[r].device_selector.kind = "First")
        => LET cat == IterCollect(heap, devices[r].head)
               m == { i \in 1..Len(cat) :
                        PredApply(installer[r].device_selector.pred, cat[i]) }
           IN  IF m = {}
               THEN /\ pred_evals'[r] = cat
                    /\ pc'[r] = "Failed"
               ELSE /\ pred_evals'[r] = SubSeq(cat, 1, Min(m))
                    /\ device'[r] = Some(cat[Min(m)])
                    /\ pc'[r] = "ConflictChecking"]_vars

\* the second of three records matched: two evaluations, the third skipped
C9_Witness ==
    \E r \in Runs :
        /\ installer[r].device_selector.kind = "First"
        /\ pc[r] = "ConflictChecking"
        /\ Len(pred_evals[r]) = 2
        /\ device[r] = Some(pred_evals[r][2])
        /\ \E i \in 1..Len(log[r]) :
              log[r][i].msg = "Found USB devices" /\ log[r][i].n = 3

(***************************************************************************)
(* C10: with an Explicit (Specific) selector, Selecting always succeeds    *)
(* and resolves a record equal to the held device, native enumerate is     *)
(* never called in that run, and the conflict check is decided by the      *)
(* driver field of the supplied record alone.                              *)
(***************************************************************************)
C10_Explicit ==
    \A r \in Runs :
        installer[r].device_selector.kind = "Specific"
        => LET held == installer[r].device_selector.dev
               stopped == /\ pc[r] = "Failed"
                          /\ result[r] = Fail(Err("Exists"))
                          /\ CallsOf(r, "wdi_prepare_driver") = {}
           IN  /\ CallsOf(r, "wdi_create_list") = {}
               /\ CallsOf(r, "wdi_destroy_list") = {}
               /\ ~devices[r].held /\ ~devices[r].dropped
               /\ pc[r] \notin {"Building", "Selecting"}
                     => device[r] = Some(held)
               /\ held.driver.some
                     => /\ pc[r] \in {"Building", "Selecting",
                                      "ConflictChecking", "Failed"}
                        /\ pc[r] = "Failed" => stopped
               /\ ~held.driver.some => ~stopped

\* a supplied record without a driver went all the way
C10_Witness ==
    \E r \in Runs :
        /\ installer[r].device_selector.kind = "Specific"
        /\ pc[r] = "Done"
        /\ result[r] = Ok(installer[r].device_selector.dev)

(***************************************************************************)
(* The error taxonomy as the specification lists it: code 0 is success,    *)
(* codes -1 .. -19 are the nineteen named errors in this order, -99 is     *)
(* Other, and every other code c is Unknown(c).                            *)
(***************************************************************************)
KnownErrors ==
    <<"Io", "InvalidParam", "Access", "NoDevice", "NotFound", "Busy",
      "Timeout", "Overflow", "PendingInstallation", "Interrupted", "Resource",
      "NotSupported", "Exists", "UserCancel", "NeedsAdmin", "Wow64",
      "InfSyntax", "CatMissing", "Unsigned">>

Taxonomy(c) ==
    IF c = 0 THEN [name |-> "Success", code |-> 0]
    ELSE IF c < 0 /\ c >= -19 THEN [name |-> KnownErrors[-c], code |-> 0]
    ELSE IF c = -99 THEN [name |-> "Other", code |-> 0]
    ELSE [name |-> "Unknown", code |-> c]

EnumeratePrepareInstall ==
    {"wdi_create_list", "wdi_prepare_driver", "wdi_install_driver"}

\* no record of the list the run holds satisfies the run's selector
NoRecordMatches(r) ==
    LET sel == installer[r].device_selector
        nodes == ListNodes(heap, devices[r].head)
    IN  IF sel.kind = "VidPid"
        THEN \A a \in nodes :
                ~(heap[a].info.vid = sel.vid /\ heap[a].info.pid = sel.pid)
        ELSE \A a \in nodes : ~PredApply(sel.pred, from_raw(heap[a].info))

(***************************************************************************)
(* C11: with a VidPid or Predicate selector, if enumeration succeeds with  *)
(* an empty catalog, or with a catalog in which no record matches,         *)
(* install() returns NotFound, and the run creates no directory, writes no *)
(* file and makes no prepare or install call.                              *)
(***************************************************************************)
C11_NotFound ==
    [][\A r \in Runs :
        (/\ pc[r] = "Listed"
         /\ pc'[r] # "Listed"
         /\ NoRecordMatches(r))
        => /\ pc'[r] = "Failed"
           /\ result'[r] = Fail(Err("NotFound"))
           /\ device'[r] = None
           /\ NothingProvisioned(r)']_vars

\* a catalog of three records, none of them the device asked for
C11_Witness ==
    \E r \in Runs :
        /\ installer[r].device_selector.kind = "VidPid"
        /\ pc[r] = "Failed"
        /\ result[r] = Fail(Err("NotFound"))
        /\ Logged(r, "No USB devices found with VID:PID")
        /\ \E i \in 1..Len(log[r]) :
              log[r][i].msg = "Found USB devices" /\ log[r][i].n = 3

(***************************************************************************)
(* C12, as claimed: whenever the Selecting phase fails, for whatever       *)
(* cause, a failing native enumerate call included, install() ends in      *)
(* Failed(NotFound), with no temporary resource created and no prepare or  *)
(* install call made.                                                      *)
(***************************************************************************)
C12_SelectingFailsNotFound ==
    \A r \in Runs :
        (pc[r] = "Failed" /\ ~device[r].some)
        => /\ result[r] = Fail(Err("NotFound"))
           /\ NothingProvisioned(r)

(***************************************************************************)
(* C12, amended: whenever the Selecting phase fails, install() ends in     *)
(* Failed and stops, with no temporary resource created and no prepare or  *)
(* install call made; the error is NotFound when enumeration succeeded and *)
(* no record was selected, and the error the taxonomy maps the native code *)
(* to when the native enumerate call itself failed.                        *)
(***************************************************************************)
C12_SelectingFailsStops ==
    \A r \in Runs :
        (pc[r] = "Failed" /\ ~device[r].some)
        => /\ NothingProvisioned(r)
           /\ Cardinality(CallsOf(r, "wdi_create_list")) = 1
           /\ \A i \in CallsOf(r, "wdi_create_list") :
                 result[r] = Fail(IF calls[i].code = 0
                                  THEN [name |-> "NotFound", code |-> 0]
                                  ELSE Taxonomy(calls[i].code))

\* the native enumerate call failed with Timeout
C12_Witness ==
    \E r \in Runs :
        /\ pc[r] = "Failed"
        /\ ~device[r].some
        /\ \E i \in CallsOf(r, "wdi_create_list") : calls[i].code = -7
        /\ result[r].err.name = "Timeout"

(***************************************************************************)
(* C13: if a native call made during install() (enumerate, prepare or      *)
(* install) returns a non-zero code c, install() returns exactly the error *)
(* the taxonomy maps c to: it is the run's last native call, no later      *)
(* phase runs, and the release of the temporary directory leaves that      *)
(* error as it is.                                                         *)
(***************************************************************************)
C13_NativeErrorSurfaced ==
    \A i \in 1..Len(calls) :
        (/\ calls[i].fn \in EnumeratePrepareInstall
         /\ calls[i].done
         /\ calls[i].code # 0)
        => LET r == calls[i].run
           IN  /\ pc[r] = "Failed"
               /\ result[r] = Fail(Taxonomy(calls[i].code))
               /\ \A j \in 1..Len(calls) : calls[j].run = r => j <= i
               /\ ~temp_dir[r].held
               /\ Cardinality(DirEvents(r, "release"))
                     = Cardinality(DirEvents(r, "create"))

\* native install failed with an unknown code after the directory was made
C13_Witness ==
    \E r \in Runs :
        /\ pc[r] = "Failed"
        /\ \E i \in CallsOf(r, "wdi_install_driver") : calls[i].code = 3
        /\ result[r] = Fail([name |-> "Unknown", code |-> 3])
        /\ DirEvents(r, "release") # {}

(***************************************************************************)
(* C14, as claimed: for the facade's prepare and install operations, if    *)
(* any string handed to the native layer (the directory path, the INF      *)
(* name, a Device string field or an option string) contains an embedded   *)
(* NUL, the operation returns InvalidParam and the native function is not  *)
(* called.                                                                 *)
(***************************************************************************)
OptHasNul(o) == o.some /\ HasNul(o.val)

InputHasNul(in) ==
    \/ HasNul(in.path)
    \/ HasNul(in.inf_name)
    \/ OptHasNul(in.device.desc)
    \/ OptHasNul(in.device.driver)
    \/ OptHasNul(in.device.device_id)
    \/ OptHasNul(in.device.hardware_id)
    \/ OptHasNul(in.device.compatible_id)
    \/ OptHasNul(in.device.upper_filter)
    \/ \E k \in 1..Len(in.strings) : OptHasNul(in.strings[k])

C14_NulRejected ==
    \A r \in Runs :
        (/\ client[r].op \in {"prepare_driver", "install_driver"}
         /\ InputHasNul(client[r].input))
        => /\ client[r].ret = [name |-> "InvalidParam", code |-> 0]
           /\ CallsOf(r, "wdi_prepare_driver") = {}
           /\ CallsOf(r, "wdi_install_driver") = {}

(***************************************************************************)
(* C15: Error::from_code is total over the integer codes: 0 maps to        *)
(* success; -1 .. -19 and -99 map one-to-one to the twenty named errors    *)
(* (distinct codes give distinct errors); every other code c, positive or  *)
(* negative, maps to Unknown(c) carrying c unchanged.                      *)
(***************************************************************************)
C15_FromCodeTotal ==
    \A r \in Runs :
        client[r].op = "set_log_level"
        => \A i \in CallsOf(r, "wdi_set_log_level") :
              /\ client[r].ret = Taxonomy(calls[i].code)
              /\ \A c \in CodeInputs :
                    c # calls[i].code => from_code(c) # client[r].ret

\* the most negative code there is comes back inside Unknown
C15_Witness ==
    \E r \in Runs :
        /\ client[r].op = "set_log_level"
        /\ \E i \in CallsOf(r, "wdi_set_log_level") : calls[i].code = IntMin
        /\ client[r].ret = [name |-> "Unknown", code |-> IntMin]

(***************************************************************************)
(* C16: with an External INF source, provisioning creates no temporary     *)
(* directory; if the path does not exist install() returns NotFound, if it *)
(* exists but has no parent, or the path or its parent is not              *)
(* representable as a string, it returns InvalidParam, and in both cases   *)
(* neither native prepare nor native install is called; otherwise the      *)
(* driver directory passed on is the path's parent and the INF path is the *)
(* path itself.                                                            *)
(***************************************************************************)
C16_External ==
    [][\A r \in Runs :
        (/\ pc[r] = "Provisioning"
         /\ pc'[r] # "Provisioning"
         /\ installer[r].inf_source.kind = "External")
        => LET p == installer[r].inf_source.path
               stops(e) == /\ pc'[r] = "Failed"
                           /\ result'[r] = Fail(Err(e))
                           /\ NothingProvisioned(r)'
           IN  /\ dir_log' = dir_log
               /\ fs_dirs' = fs_dirs
               /\ fs_files' = fs_files
               /\ ~temp_dir'[r].held
               /\ IF ~exists(p) THEN stops("NotFound")
                  ELSE IF ~parent(p).some THEN stops("InvalidParam")
                  ELSE IF ~to_str(parent(p).val).some \/ ~to_str(p).some
                  THEN stops("InvalidParam")
                  ELSE /\ pc'[r] = "Preparing"
                       /\ driver_path'[r] = to_str(parent(p).val).val
                       /\ inf_path'[r] = to_str(p).val]_vars

\* C:\drivers\my.inf was prepared and installed from C:\drivers
C16_Witness ==
    \E r \in Runs :
        /\ installer[r].inf_source.kind = "External"
        /\ pc[r] = "Done"
        /\ DirEvents(r, "create") = {}
        /\ \E i \in CallsOf(r, "wdi_install_driver") :
              /\ calls[i].args.path = <<"C:", "\\", "drivers">>
              /\ calls[i].args.inf_name =
                    <<"C:", "\\", "drivers", "\\", "my.inf">>

(***************************************************************************)
(* C17: within one install() run each native operation (enumerate,         *)
(* prepare, install) is called at most once; after a failure, Timeout and  *)
(* PendingInstallation from native install included, no further native     *)
(* call is made in that run and the failure is what the run returns.       *)
(***************************************************************************)
C17_AtMostOnce(r) ==
    /\ \A fn \in EnumeratePrepareInstall : Cardinality(CallsOf(r, fn)) <= 1
    /\ \A i \in 1..Len(calls) :
          (calls[i].run = r /\ calls[i].done /\ calls[i].code # 0
              /\ calls[i].fn \in EnumeratePrepareInstall)
          => /\ pc[r] = "Failed"
             /\ result[r].kind = "Err"
             /\ \A j \in 1..Len(calls) : calls[j].run = r => j <= i

C17_NoRetry ==
    /\ [](\A r \in Runs : C17_AtMostOnce(r))
    /\ [][\A r \in Runs :
            pc[r] = "Failed"
            => /\ pc'[r] = "Failed"
               /\ result'[r] = result[r]
               /\ \A i \in 1..Len(calls') : calls'[i].run = r => i <= Len(calls)]_vars

\* native install timed out once, and that was the end of the run
C17_Witness ==
    \E r \in Runs :
        /\ pc[r] = "Failed"
        /\ result[r].err.name = "Timeout"
        /\ Cardinality(CallsOf(r, "wdi_create_list")) = 1
        /\ Cardinality(CallsOf(r, "wdi_prepare_driver")) = 1
        /\ \E i \in CallsOf(r, "wdi_install_driver") : calls[i].code = -7

(***************************************************************************)
(* C18: install() returns Ok(d) if and only if selection, the conflict     *)
(* check, provisioning, native prepare and native install all succeeded,   *)
(* and d is the record resolved by Selecting; for a VidPid selector with   *)
(* Embedded data, a matching device without a driver, an otherwise default *)
(* configuration and native success codes, prepare is called with          *)
(* external_inf = 1 and driver_type = WinUsb (0), install is called with a *)
(* pending-install timeout of 120000, and that device is returned.         *)
(***************************************************************************)
SucceededCall(r, fn) ==
    \E i \in CallsOf(r, fn) : calls[i].done /\ calls[i].code = 0

C18_OkIffAllSucceeded ==
    \A r \in Runs :
        /\ result[r].kind = "Ok" <=> pc[r] = "Done"
        /\ SucceededCall(r, "wdi_install_driver")
              => pc[r] \in {"Installed", "Done"}
        /\ pc[r] \in {"Installed", "Done"}
              => /\ installer[r].device_selector.kind # "Specific"
                       => SucceededCall(r, "wdi_create_list")
                 /\ DriverAbsent(r)
                 /\ driver_path[r] # <<>> /\ inf_path[r] # <<>>
                 /\ SucceededCall(r, "wdi_prepare_driver")
                 /\ SucceededCall(r, "wdi_install_driver")
        /\ pc[r] = "Done"
              => /\ result[r].dev = device[r]
                 /\ result[r].err.name = "Success"
        /\ (/\ pc[r] = "Done"
            /\ installer[r].device_selector.kind = "VidPid"
            /\ installer[r].inf_source.kind = "Embedded"
            /\ installer[r].driver_type = "WinUsb"
            /\ installer[r].options.install_opts.pending_install_timeout = 120000)
           => /\ \A i \in CallsOf(r, "wdi_prepare_driver") :
                    /\ calls[i].args.options.external_inf = 1
                    /\ calls[i].args.options.driver_type = 0
              /\ \A i \in CallsOf(r, "wdi_install_driver") :
                    calls[i].args.options.pending_install_timeout = 120000
              /\ result[r].dev.val.vid = installer[r].device_selector.vid
              /\ result[r].dev.val.pid = installer[r].device_selector.pid

\* the default scenario, with the device second in a catalog of three
C18_Witness ==
    \E r \in Runs :
        /\ pc[r] = "Done"
        /\ installer[r].device_selector.kind = "VidPid"
        /\ installer[r].inf_source.kind = "Embedded"
        /\ installer[r].driver_type = "WinUsb"
        /\ installer[r].options.install_opts = InstallDriverOptionsDefault
        /\ result[r] = Ok(Device(1, 1, None, Some(<<"a">>)))
        /\ \E i \in 1..Len(log[r]) :
              log[r][i].msg = "Found USB devices" /\ log[r][i].n = 3

(***************************************************************************)
(* C19: for a catalog holding n records: len() = n; is_empty() holds iff   *)
(* n = 0; get(i) is the i-th record of iteration for i < n and None for    *)
(* i >= n; from_vid_pid(vid, pid) is exactly the subsequence of records    *)
(* matching both fields, in enumeration order; every call to iter()        *)
(* restarts at the head and yields the same n records in the same order,   *)
(* then None for ever; and none of this modifies the list.                 *)
(***************************************************************************)
\* the records of the native list the run holds, read node by node
ListSize(r) == Cardinality(ListNodes(heap, devices[r].head))

Record(r, i) == from_raw(heap[devices[r].head + i].info)

\* the k-th smallest element of a set of numbers
Kth(S, k) == CHOOSE x \in S : Cardinality({ y \in S : y < x }) = k - 1

C19_Queries(r) ==
    LET n == ListSize(r)
        c == client[r]
    IN  /\ c.op = "len" => c.ret = n
        /\ c.op = "is_empty" => (c.ret <=> n = 0)
        /\ c.op = "get"
              => c.ret.item = (IF c.ret.index < n
                               THEN Some(Record(r, c.ret.index)) ELSE None)
        /\ c.op = "from_vid_pid"
              => LET m == { i \in 0..(n - 1) :
                              /\ Record(r, i).vid = c.ret.vid
                              /\ Record(r, i).pid = c.ret.pid }
                 IN  /\ Len(c.ret.items) = Cardinality(m)
                     /\ \A k \in 1..Len(c.ret.items) :
                           c.ret.items[k] = Record(r, Kth(m, k))
        /\ c.iterating
              => /\ \A k \in 1..Len(c.yielded) :
                       c.yielded[k] = (IF k <= n THEN Some(Record(r, k - 1))
                                       ELSE None)
                 /\ c.current = (IF Len(c.yielded) < n
                                 THEN devices[r].head + Len(c.yielded)
                                 ELSE NullAddr)

C19_DeviceList ==
    /\ [](\A r \in Runs : pc[r] = "Holding" => C19_Queries(r))
    /\ [][\A r \in Runs :
            (pc[r] = "Holding" /\ pc'[r] = "Holding")
            => (heap' = heap /\ devices' = devices)]_vars

\* the second iteration over three records, run to its end and past it,
\* and then a look at the last record
C19_Witness ==
    \E r \in Runs :
        /\ pc[r] = "Holding"
        /\ client[r].iters = 2
        /\ Len(client[r].yielded) = 5
        /\ client[r].yielded[3].some
        /\ ~client[r].yielded[4].some
        /\ client[r].op = "get"
        /\ client[r].ret.index = 2
        /\ client[r].ret.item = client[r].yielded[3]

(***************************************************************************)
(* C20: no node of a native device list is read after the list's release:  *)
(* in install() with a VidPid or Predicate selector the enumerated catalog *)
(* is released when Selecting ends (on the success, empty-catalog and      *)
(* no-match paths alike, before Provisioning begins), and the selected     *)
(* Device used by the conflict check, prepare and install is a copy whose  *)
(* field values the release does not affect.                               *)
(***************************************************************************)
C20_Released(r) ==
    /\ pc[r] = "Listed"
          => /\ devices[r].held
             /\ devices[r].head # NullAddr => devices[r].head \in DOMAIN heap
    /\ pc[r] \in {"ConflictChecking", "Failed"} \cup AfterConflictCheck
          => /\ ~devices[r].held
             /\ SucceededCall(r, "wdi_create_list")
                   => /\ devices[r].dropped
                      /\ devices[r].head \notin DOMAIN heap
                      /\ devices[r].head # NullAddr
                            => \E j \in CallsOf(r, "wdi_destroy_list") :
                                  /\ calls[j].args.list = devices[r].head
                                  /\ \A i \in CallsOf(r, "wdi_prepare_driver") :
                                        j < i
    /\ \A i \in CallsOf(r, "wdi_prepare_driver")
                   \cup CallsOf(r, "wdi_install_driver") :
          /\ calls[i].args.device_info.vid = device[r].val.vid
          /\ calls[i].args.device_info.pid = device[r].val.pid
          /\ ~calls[i].args.device_info.device_id.null
          /\ calls[i].args.device_info.device_id.bytes
                = device[r].val.device_id.val

C20_NoUseAfterRelease ==
    /\ [](\A r \in Runs :
            installer[r].device_selector.kind \in {"VidPid", "First"}
            => C20_Released(r))
    /\ [][\A r \in Runs :
            /\ device[r].some => device'[r] = device[r]
            /\ (pc[r] = "Listed" /\ pc'[r] = "ConflictChecking")
               => \E a \in ListNodes(heap, devices[r].head) :
                     /\ device'[r] = Some(from_raw(heap[a].info))
                     /\ a \notin DOMAIN heap']_vars

\* native install is running on the copy; the list it came from is gone
C20_Witness ==
    \E r \in Runs :
        /\ installer[r].device_selector.kind = "VidPid"
        /\ pc[r] = "InInstall"
        /\ devices[r].dropped
        /\ DOMAIN heap = {}
        /\ device[r] = Some(Device(1, 1, None, Some(<<"a">>)))
        /\ \E i \in CallsOf(r, "wdi_install_driver") :
              calls[i].args.device_info.device_id.bytes = <<"a">>
        /\ \E i \in 1..Len(log[r]) :
              log[r][i].msg = "Found USB devices" /\ log[r][i].n = 3

(***************************************************************************)
(* C21: an installer fresh from new, for_device or for_specific_device has *)
(* INF source Generated, driver type WinUsb, the default prepare options   *)
(* (external_inf false, driver type WinUsb, no strings, every flag false)  *)
(* and the default install options (no filter driver, pending-install      *)
(* timeout 120000); for_device(vid, pid) holds the selector VidPid with    *)
(* exactly vid and pid; CreateListOptions::default() is list_all false,    *)
(* list_hubs false, trim_whitespaces true.                                 *)
(***************************************************************************)
Constructors == {"new", "for_device", "for_specific_device"}

FreshDefaults(i) ==
    /\ i.inf_source.kind = "Generated"
    /\ i.driver_type = "WinUsb"
    /\ i.options.prepare_opts =
           [driver_type |-> "WinUsb", vendor_name |-> [some |-> FALSE, val |-> <<>>],
            device_guid |-> [some |-> FALSE, val |-> <<>>],
            disable_cat |-> FALSE, disable_signing |-> FALSE,
            cert_subject |-> [some |-> FALSE, val |-> <<>>],
            use_wcid_driver |-> FALSE, external_inf |-> FALSE]
    /\ i.options.install_opts =
           [install_filter_driver |-> FALSE, pending_install_timeout |-> 120000]

C21_FreshDefaults ==
    \A r \in Runs :
        /\ client[r].op \in Constructors => FreshDefaults(installer[r])
        /\ client[r].op = "for_device" =>
               /\ installer[r].device_selector.kind = "VidPid"
               /\ installer[r].device_selector.vid = client[r].input[1]
               /\ installer[r].device_selector.pid = client[r].input[2]
        /\ client[r].op = "new" =>
               installer[r].device_selector = client[r].input
        /\ client[r].op = "for_specific_device" =>
               /\ installer[r].device_selector.kind = "Specific"
               /\ installer[r].device_selector.dev = client[r].input
        /\ client[r].op = "CreateListOptions::default" =>
               client[r].ret = [list_all |-> FALSE, list_hubs |-> FALSE,
                                trim_whitespaces |-> TRUE]

C21_Witness ==
    \E r \in Runs :
        /\ pc[r] = "Constructed"
        /\ client[r].op = "for_device"
        /\ client[r].input = <<4660, 22136>>
        /\ installer[r].device_selector.vid = 4660
        /\ installer[r].device_selector.pid = 22136
        /\ installer[r].inf_source.kind = "Generated"

(***************************************************************************)
(* C22: a builder step changes only its own field of the installer it is   *)
(* applied to: with_driver_type only the driver type, with_inf_data and    *)
(* with_inf_file only the INF source, with_prepare_options only the        *)
(* prepare options, with_install_options only the install options; the     *)
(* selector and every other field stay as they were, whatever steps came   *)
(* before.                                                                 *)
(***************************************************************************)
BuilderSteps ==
    {"with_inf_data", "with_inf_file", "with_driver_type",
     "with_prepare_options", "with_install_options"}

\* the fields of installer i that differ from those of installer j
ChangedFields(i, j) ==
    {f \in {"device_selector", "driver_type", "inf_source"} : i[f] # j[f]}
    \cup {f \in {"prepare_opts", "install_opts"} : i.options[f] # j.options[f]}

OwnField(op) ==
    CASE op \in {"with_inf_data", "with_inf_file"} -> "inf_source"
      [] op = "with_driver_type" -> "driver_type"
      [] op = "with_prepare_options" -> "prepare_opts"
      [] op = "with_install_options" -> "install_opts"

C22_BuilderFrame ==
    \A r \in Runs :
        client[r].op \in BuilderSteps =>
            /\ ChangedFields(installer[r], client[r].ret)
                   \subseteq {OwnField(client[r].op)}
            /\ DOMAIN installer[r] = DOMAIN client[r].ret
            /\ DOMAIN installer[r].options = DOMAIN client[r].ret.options
            /\ client[r].op = "with_driver_type" =>
                   installer[r].driver_type = client[r].input
            /\ client[r].op = "with_prepare_options" =>
                   installer[r].options.prepare_opts = client[r].input
            /\ client[r].op = "with_install_options" =>
                   installer[r].options.install_opts = client[r].input
            /\ client[r].op = "with_inf_file" =>
                   /\ installer[r].inf_source.kind = "External"
                   /\ installer[r].inf_source.path = client[r].input
            /\ client[r].op = "with_inf_data" =>
                   /\ installer[r].inf_source.kind = "Embedded"
                   /\ installer[r].inf_source.data = client[r].input[1]
                   /\ installer[r].inf_source.filename = client[r].input[2]

\* a step on an installer that earlier steps had already configured
C22_Witness ==
    \E r \in Runs :
        /\ client[r].op = "with_install_options"
        /\ client[r].ret.driver_type = "LibUsbK"
        /\ client[r].ret.inf_source.kind = "Embedded"
        /\ client[r].ret.options.prepare_opts.external_inf
        /\ installer[r].options.install_opts # client[r].ret.options.install_opts
        /\ installer[r].options.prepare_opts = client[r].ret.options.prepare_opts

(***************************************************************************)
(* C23: once an INF source has been set on an installer, no later builder  *)
(* step and no phase of install() changes the installer's INF source.      *)
(* A source is set when it is no longer the default Generated.             *)
(***************************************************************************)
InfSourceSet(r) == installer[r].inf_source.kind # "Generated"

C23_SetSourceNeverChanges ==
    [][\A r \in Runs :
          InfSourceSet(r) => installer'[r].inf_source = installer[r].inf_source]_vars

(***************************************************************************)
(* C23, as the code has it: the INF source of an installer changes only in *)
(* a with_inf_data or with_inf_file step, which replaces it by the source  *)
(* it is given, also when one was set before; no other builder step and no *)
(* phase of install() changes it.                                          *)
(***************************************************************************)
C23_OnlyInfStepsSetSource ==
    [][\A r \in Runs :
          installer'[r].inf_source # installer[r].inf_source =>
              /\ pc[r] = "Building"
              /\ pc'[r] = "Building"
              /\ installer'[r].inf_source.kind \in {"Embedded", "External"}
              /\ ChangedFields(installer'[r], installer[r]) = {"inf_source"}]_vars

\* a run that went through every phase with the source set second
C23_Witness ==
    \E r \in Runs :
        /\ pc[r] = "Done"
        /\ installer[r].inf_source.kind = "Embedded"
        /\ installer[r].driver_type = "LibUsbK"
        /\ \E i \in CallsOf(r, "wdi_install_driver") : calls[i].done

(***************************************************************************)
(* C24: the external_inf value the caller hands to with_prepare_options    *)
(* never influences the run: two install() runs that differ in nothing     *)
(* else make the same native calls, in the same order, with the same       *)
(* arguments, and return the same result; the mismatch between the         *)
(* caller's value and the one derived from the INF source is logged as a   *)
(* warning by the run that has it and is never rejected.  The name of the  *)
(* temporary directory is random and is left out of the comparison.        *)
(***************************************************************************)
Terminated(r) == pc[r] \in {"Done", "Failed"}

\* a string with the name of the temporary directory blanked
Blanked(str, name) ==
    [i \in DOMAIN str |-> IF str[i] = name THEN "tmp" ELSE str[i]]

CallArgs(c, name) ==
    IF c.fn \in {"wdi_prepare_driver", "wdi_install_driver"}
    THEN [c.args EXCEPT !.path = Blanked(@, name),
                        !.inf_name = Blanked(@, name)]
    ELSE c.args

\* the native calls of run r in order: function, arguments, returned code
CallSeq(r) ==
    LET mine == SelectSeq(calls, LAMBDA c : c.run = r)
    IN  [i \in DOMAIN mine |->
            [fn |-> mine[i].fn, args |-> CallArgs(mine[i], temp_dir[r].name),
             done |-> mine[i].done, code |-> mine[i].code]]

Warned(r) == Logged(r, "Overriding prepare_opts.external_inf")

C24_ExternalInfIgnored ==
    (Terminated(1) /\ Terminated(2)) =>
        /\ CallSeq(1) = CallSeq(2)
        /\ result[1] = result[2]
        /\ pc[1] = pc[2]
        /\ CallsOf(1, "wdi_prepare_driver") # {} => (Warned(1) # Warned(2))

\* both runs went through to the end; the second one had to be overridden
C24_Witness ==
    /\ pc[1] = "Done" /\ pc[2] = "Done"
    /\ installer[1].inf_source.kind = "Generated"
    /\ ~Warned(1) /\ Warned(2)
    /\ Len(CallSeq(2)) >= 3
    /\ CallSeq(1) = CallSeq(2)
    /\ temp_dir[1].name # temp_dir[2].name

(***************************************************************************)
(* C25: when install() runs execute at the same time, each run that needs  *)
(* a temporary directory creates its own; no temporary directory is        *)
(* written to, handed to the native calls or released by a run other than  *)
(* the one that created it; and no directory is removed, by a run that     *)
(* finishes, while the prepare or install of another run is still using    *)
(* it.                                                                     *)
(***************************************************************************)
NeedsTempDir(r) == installer[r].inf_source.kind # "External"

\* the run that created the directory of event e of the directory log
CreatorOf(e) ==
    { dir_log[c].run : c \in { c \in 1..e : /\ dir_log[c].ev = "create"
                                              /\ dir_log[c].dir = dir_log[e].dir } }

BetweenProvisionAndReturn ==
    {"Preparing", "InPrepare", "Installing", "InInstall", "Installed"}

C25_OwnTempDir ==
    /\ \A r \in Runs :
          /\ Cardinality(DirEvents(r, "create")) <= 1
          /\ ~NeedsTempDir(r) => DirEvents(r, "create") = {}
          /\ (NeedsTempDir(r) /\ pc[r] \in BetweenProvisionAndReturn) =>
                /\ Cardinality(DirEvents(r, "create")) = 1
                /\ DirEvents(r, "release") = {}
                /\ temp_dir[r].held
                /\ temp_dir[r].name \in fs_dirs
                /\ \A q \in Runs \ {r} : temp_dir[q].name # temp_dir[r].name
    /\ \A e \in 1..Len(dir_log) : CreatorOf(e) = {dir_log[e].run}
    /\ \A i \in 1..Len(calls) :
          calls[i].fn \in {"wdi_prepare_driver", "wdi_install_driver"} =>
              \A c \in 1..Len(dir_log) :
                  (/\ dir_log[c].ev = "create"
                   /\ to_str(dir_log[c].path).some
                   /\ StartsWith(calls[i].args.path,
                                 to_str(dir_log[c].path).val))
                      => dir_log[c].run = calls[i].run
    /\ \A i \in 1..Len(calls) :
          (calls[i].fn \in {"wdi_prepare_driver", "wdi_install_driver"}
           /\ NeedsTempDir(calls[i].run)) =>
              /\ \E c \in DirEvents(calls[i].run, "create") :
                    to_str(dir_log[c].path) = Some(calls[i].args.path)
              /\ ~calls[i].done => DirEvents(calls[i].run, "release") = {}

\* the first run has returned and released its directory while the second
\* is inside native install with a directory of its own
C25_Witness ==
    /\ pc[1] = "Done" /\ pc[2] = "InInstall"
    /\ NeedsTempDir(1) /\ NeedsTempDir(2)
    /\ DirEvents(1, "release") # {}
    /\ temp_dir[2].name \in fs_dirs
    /\ temp_dir[1].name \notin fs_dirs
    /\ \E i \in CallsOf(1, "wdi_install_driver"), j \in CallsOf(2, "wdi_prepare_driver") :
          j < i

(***************************************************************************)
(* C26: install() does not enforce mutual exclusion per device identity:   *)
(* the conflict check of a run passes, and the run goes on to prepare and  *)
(* install, whatever another run is doing with the same device, so that    *)
(* without an external lock two runs on one device identity can be inside  *)
(* the native prepare/install phases at the same time; when the callers    *)
(* hold a lock per device identity around install(), two runs on one       *)
(* device identity are never active at the same time.                      *)
(***************************************************************************)
InNativePhases(r) ==
    pc[r] \in {"Preparing", "InPrepare", "Installing", "InInstall", "Installed"}

SameDevice(r, q) ==
    /\ device[r].some /\ device[q].some
    /\ device[r].val.vid = device[q].val.vid
    /\ device[r].val.pid = device[q].val.pid

C26_ExclusionIsExternal ==
    \A r \in Runs :
        /\ (pc[r] = "ConflictChecking" /\ DriverAbsent(r)) =>
               ENABLED (CheckExistingDriver(r) /\ pc'[r] = "Provisioning")
        /\ pc[r] = "Provisioning" => ENABLED Provision(r)
        /\ pc[r] = "Preparing" => ENABLED PrepareCall(r)
        /\ pc[r] = "Installing" => ENABLED InstallCall(r)
        /\ \A q \in Runs \ {r} :
              (env[r].locked /\ env[q].locked) =>
                  /\ LockKey(r) = LockKey(q) => ~(Active(r) /\ Active(q))
                  /\ SameDevice(r, q) =>
                        ~(InNativePhases(r) /\ InNativePhases(q))

\* no lock: both runs passed the conflict check on the same device and are
\* inside the native phases together
C26_Witness ==
    /\ ~env[1].locked /\ ~env[2].locked
    /\ SameDevice(1, 2)
    /\ pc[1] = "InPrepare" /\ pc[2] = "InInstall"

(***************************************************************************)
(* C28: whenever install() calls native prepare, the driver type the call  *)
(* receives is the installer's driver type (WinUsb unless with_driver_type *)
(* was called), whatever driver_type the options given to                  *)
(* with_prepare_options carried and in whatever order the builder steps    *)
(* were made.                                                              *)
(***************************************************************************)
C28_DriverTypeFromInstaller ==
    \A i \in 1..Len(calls) :
        calls[i].fn = "wdi_prepare_driver"
        => calls[i].args.options.driver_type =
               to_c_int(installer[calls[i].run].driver_type)

\* the caller's options (vendor Acme) asked for LibUsbK, the installer is
\* left at WinUsb
C28_Witness ==
    \E i \in 1..Len(calls) :
        /\ calls[i].fn = "wdi_prepare_driver"
        /\ calls[i].args.options.vendor_name = Ptr(<<"A", "c", "m", "e">>)
        /\ installer[calls[i].run].driver_type = "WinUsb"
        /\ calls[i].args.options.driver_type = 0

(***************************************************************************)
(* C29: with a VidPid or predicate selector, install() calls native        *)
(* enumerate exactly once, with list_all true, list_hubs false and         *)
(* trim_whitespaces true, and before any other native call of the run.     *)
(***************************************************************************)
C29_EnumerateOnceFirst ==
    \A r \in Runs :
        installer[r].device_selector.kind \in {"VidPid", "First"} =>
            LET mine == { i \in 1..Len(calls) : calls[i].run = r }
                lists == CallsOf(r, "wdi_create_list")
            IN  IF pc[r] \in {"Building", "Selecting"}
                THEN mine = {}
                ELSE /\ Cardinality(lists) = 1
                     /\ \A i \in lists :
                          /\ \A j \in mine : i <= j
                          /\ calls[i].args.options =
                                 [list_all |-> 1, list_hubs |-> 0,
                                  trim_whitespaces |-> 1]

C29_Witness ==
    \E r \in Runs :
        /\ installer[r].device_selector.kind = "First"
        /\ pc[r] = "Done"
        /\ Cardinality(CallsOf(r, "wdi_create_list")) = 1
        /\ CallsOf(r, "wdi_install_driver") # {}

(***************************************************************************)
(* C30: with a Generated INF source, provisioning creates exactly one      *)
(* temporary directory, hands its path to native prepare and install as    *)
(* the driver directory and that path followed by \generated.inf as the    *)
(* INF path, and writes no file itself; when the directory cannot be       *)
(* created the run fails with Resource.                                    *)
(***************************************************************************)
GeneratedRun(r) == installer[r].inf_source.kind = "Generated"

C30_ProvisionStep ==
    \A r \in Runs :
        (pc[r] = "Provisioning" /\ pc'[r] # "Provisioning" /\ GeneratedRun(r)) =>
            LET added == SubSeq(dir_log', Len(dir_log) + 1, Len(dir_log'))
                creates == { i \in 1..Len(added) :
                                added[i].ev = "create" /\ added[i].run = r }
            IN  /\ fs_files' = fs_files
                /\ \A i \in 1..Len(added) : added[i].ev # "write"
                /\ IF pc'[r] = "Preparing"
                   THEN /\ Len(added) = 1
                        /\ creates = {1}
                        /\ added[1].dir \notin fs_dirs
                        /\ fs_dirs' = fs_dirs \cup {added[1].dir}
                        /\ temp_dir'[r].held
                        /\ temp_dir'[r].path = added[1].path
                        /\ to_str(added[1].path) = Some(driver_path'[r])
                        /\ inf_path'[r] =
                               driver_path'[r] \o <<"\\", "generated.inf">>
                   ELSE /\ pc'[r] = "Failed"
                        /\ Cardinality(creates) <= 1
                        /\ creates = {} => result'[r] = Fail(Err("Resource"))
                        /\ fs_dirs' = fs_dirs

C30_Passed ==
    /\ \A r \in Runs :
          GeneratedRun(r) =>
              /\ Cardinality(DirEvents(r, "create")) <= 1
              /\ DirEvents(r, "write") = {}
    /\ \A i \in 1..Len(calls) :
          (calls[i].fn \in {"wdi_prepare_driver", "wdi_install_driver"}
           /\ GeneratedRun(calls[i].run)) =>
              \E e \in DirEvents(calls[i].run, "create") :
                  /\ Some(calls[i].args.path) = to_str(dir_log[e].path)
                  /\ calls[i].args.inf_name =
                         calls[i].args.path \o <<"\\", "generated.inf">>

C30_GeneratedProvisioning == []C30_Passed /\ [][C30_ProvisionStep]_vars

C30_Witness ==
    \E r \in Runs :
        /\ GeneratedRun(r)
        /\ pc[r] = "Done"
        /\ Cardinality(DirEvents(r, "create")) = 1
        /\ \E i \in CallsOf(r, "wdi_prepare_driver") :
              /\ calls[i].args.path = <<"C:", "\\", "Temp", "\\", ".tmpA">>
              /\ calls[i].args.inf_name =
                     <<"C:", "\\", "Temp", "\\", ".tmpA", "\\", "generated.inf">>

(***************************************************************************)
(* C27: an install() run is in one of the states Selecting,                *)
(* ConflictChecking, Provisioning, Preparing, Installing, Done and Failed  *)
(* and changes state only to the next one of that chain or to Failed; Done *)
(* and Failed are terminal: a run takes no step from them; from each of    *)
(* the five other states a step to Failed is possible.  The positions of   *)
(* the model inside one phase are taken together.                          *)
(***************************************************************************)
OrchestrationStates ==
    {"Selecting", "ConflictChecking", "Provisioning", "Preparing",
     "Installing", "Done", "Failed"}

\* the state of the orchestration a position belongs to; an installer that
\* install() has not been called on is still being built
StateOf(p) ==
    CASE p \in {"Selecting", "Listed"} -> "Selecting"
      [] p \in {"Preparing", "InPrepare"} -> "Preparing"
      [] p \in {"Installing", "InInstall", "Installed"} -> "Installing"
      [] OTHER -> p

StateChain ==
    { <<"Selecting", "ConflictChecking">>, <<"ConflictChecking", "Provisioning">>,
      <<"Provisioning", "Preparing">>, <<"Preparing", "Installing">>,
      <<"Installing", "Done">> }

\* what a run has done so far
RunRecord(r) ==
    <<pc[r], installer[r], devices[r], device[r], temp_dir[r], driver_path[r],
      inf_path[r], result[r], pred_evals[r], log[r]>>

C27_States ==
    \A r \in Runs :
        /\ pc[r] # "Building" => StateOf(pc[r]) \in OrchestrationStates
        /\ (pc[r] = "Selecting" /\ installer[r].device_selector.kind # "Specific")
              => ENABLED (CreateList(r) /\ pc'[r] = "Failed")
        /\ (pc[r] = "ConflictChecking" /\ device[r].val.driver.some
            /\ device[r].val.driver.val # <<>>)
              => ENABLED (CheckExistingDriver(r) /\ pc'[r] = "Failed")
        /\ (pc[r] = "Provisioning" /\ installer[r].inf_source.kind # "External")
              => ENABLED (Provision(r) /\ pc'[r] = "Failed")
        /\ pc[r] = "InPrepare"
              => ENABLED (PrepareReturn(r) /\ pc'[r] = "Failed")
        /\ pc[r] = "InInstall"
              => ENABLED (InstallReturn(r) /\ pc'[r] = "Failed")

C27_Steps ==
    \A r \in Runs :
        /\ pc[r] \in {"Done", "Failed"} =>
              /\ RunRecord(r)' = RunRecord(r)
              /\ { i \in 1..Len(calls') : calls'[i].run = r }
                     = { i \in 1..Len(calls) : calls[i].run = r }
              /\ { i \in 1..Len(dir_log') : dir_log'[i].run = r }
                     = { i \in 1..Len(dir_log) : dir_log[i].run = r }
        /\ (pc[r] # "Building" /\ StateOf(pc'[r]) # StateOf(pc[r])) =>
              \/ <<StateOf(pc[r]), StateOf(pc'[r])>> \in StateChain
              \/ /\ StateOf(pc'[r]) = "Failed"
                 /\ StateOf(pc[r]) \in OrchestrationStates \ {"Done", "Failed"}

C27_StateMachine == []C27_States /\ [][C27_Steps]_vars

\* a run that failed in its last state, Installing
C27_Witness ==
    \E r \in Runs :
        /\ pc[r] = "Failed"
        /\ \E i \in CallsOf(r, "wdi_install_driver") :
              calls[i].done /\ from_code(calls[i].code) # Success
        /\ \E i \in CallsOf(r, "wdi_prepare_driver") : calls[i].code = 0
        /\ result[r] # NoResult

(***************************************************************************)
(* C31: with an Embedded INF source, provisioning creates exactly one      *)
(* temporary directory and then writes exactly the bytes it was given to   *)
(* the file the filename joined to that directory names, all before native *)
(* prepare is called; when the directory cannot be created or the write    *)
(* fails, install() returns Resource and neither native prepare nor native *)
(* install is called.                                                      *)
(***************************************************************************)
EmbeddedRun(r) == installer[r].inf_source.kind = "Embedded"

\* a filename without separators
PlainName(f) == Len(f) = 1

NoPrepareNoInstall(r) ==
    /\ CallsOf(r, "wdi_prepare_driver") = {}
    /\ CallsOf(r, "wdi_install_driver") = {}

C31_ProvisionStep ==
    \A r \in Runs :
        (pc[r] = "Provisioning" /\ pc'[r] # "Provisioning" /\ EmbeddedRun(r)) =>
            LET src == installer[r].inf_source
                added == SubSeq(dir_log', Len(dir_log) + 1, Len(dir_log'))
                kinds == [i \in DOMAIN added |-> added[i].ev]
            IN  /\ NoPrepareNoInstall(r)
                /\ calls' = calls
                /\ \A i \in DOMAIN added : added[i].run = r
                /\ IF pc'[r] = "Preparing"
                   THEN /\ kinds = <<"create", "write">>
                        /\ added[1].dir \notin fs_dirs
                        /\ added[1].dir \in fs_dirs'
                        /\ temp_dir'[r].held
                        /\ temp_dir'[r].path = added[1].path
                        /\ fs_files' \ fs_files =
                               {[path |-> added[2].path, data |-> src.data]}
                        /\ PlainName(src.filename) =>
                               /\ added[2].path.abs = added[1].path.abs
                               /\ added[2].path.comps =
                                      added[1].path.comps \o src.filename
                        /\ to_str(added[1].path) = Some(driver_path'[r])
                        /\ to_str(added[2].path) = Some(inf_path'[r])
                   ELSE /\ pc'[r] = "Failed"
                        /\ kinds = <<>> => result'[r] = Fail(Err("Resource"))
                        /\ (kinds = <<"create", "release">>
                            /\ to_str(added[1].path).some)
                               => result'[r] = Fail(Err("Resource"))
                        /\ result'[r] \in {Fail(Err("Resource")),
                                           Fail(Err("InvalidParam"))}

\* a native prepare or install of an Embedded run finds the file written
C31_Written ==
    \A i \in 1..Len(calls) :
        (calls[i].fn \in {"wdi_prepare_driver", "wdi_install_driver"}
         /\ EmbeddedRun(calls[i].run)) =>
            LET r == calls[i].run
            IN  /\ Cardinality(DirEvents(r, "create")) = 1
                /\ Cardinality(DirEvents(r, "write")) = 1
                /\ \A w \in DirEvents(r, "write") :
                      /\ \A c \in DirEvents(r, "create") : c < w
                      /\ to_str(dir_log[w].path) = Some(calls[i].args.inf_name)
                      /\ ~calls[i].done =>
                            [path |-> dir_log[w].path,
                             data |-> installer[r].inf_source.data] \in fs_files

C31_EmbeddedProvisioning == []C31_Written /\ [][C31_ProvisionStep]_vars

\* the write failed after the directory was made: Resource, directory
\* released, nothing prepared
C31_Witness ==
    \E r \in Runs :
        /\ EmbeddedRun(r)
        /\ pc[r] = "Failed"
        /\ result[r] = Fail(Err("Resource"))
        /\ DirEvents(r, "create") # {}
        /\ DirEvents(r, "write") = {}
        /\ DirEvents(r, "release") # {}
        /\ NoPrepareNoInstall(r)

(***************************************************************************)
(* C32: within one install() run, native prepare and native install are    *)
(* called with the same device record, the one Selecting resolved, and     *)
(* with the same driver directory and the same INF path, the pair          *)
(* Provisioning produced.                                                  *)
(***************************************************************************)
C32_SameArguments ==
    \A i \in 1..Len(calls) :
        calls[i].fn \in {"wdi_prepare_driver", "wdi_install_driver"} =>
            LET r == calls[i].run
            IN  /\ device[r].some
                /\ calls[i].args.device_info = to_raw(device[r].val)
                /\ calls[i].args.path = driver_path[r]
                /\ calls[i].args.inf_name = inf_path[r]
                /\ \A j \in 1..Len(calls) :
                      (calls[j].run = r
                       /\ calls[j].fn \in {"wdi_prepare_driver",
                                           "wdi_install_driver"}) =>
                          /\ calls[j].args.device_info = calls[i].args.device_info
                          /\ calls[j].args.path = calls[i].args.path
                          /\ calls[j].args.inf_name = calls[i].args.inf_name

C32_Witness ==
    \E r \in Runs :
        /\ pc[r] = "InInstall"
        /\ installer[r].inf_source.kind = "External"
        /\ installer[r].device_selector.kind = "VidPid"
        /\ \E i \in CallsOf(r, "wdi_prepare_driver"),
              j \in CallsOf(r, "wdi_install_driver") :
              /\ i < j
              /\ calls[i].args.path = <<"C:", "\\", "drivers">>
              /\ calls[j].args.inf_name = <<"C:", "\\", "drivers", "\\", "my.inf">>
              /\ calls[j].args.device_info.vid = 1

(***************************************************************************)
(* C33: install() hands the caller's configuration on unmodified but for   *)
(* two fields: native install receives exactly the install options last    *)
(* set (filter-driver flag and pending-install timeout), and native        *)
(* prepare receives the prepare options last set with only external_inf    *)
(* and driver_type overwritten; vendor name, device GUID, the disable      *)
(* flags, the certificate subject and the WCID flag are as the caller set  *)
(* them.                                                                   *)
(***************************************************************************)
Overwritten == {"external_inf", "driver_type"}

\* a configured string as the C struct carries it
AsPointer(o) == IF o.some THEN [null |-> FALSE, bytes |-> o.val]
                ELSE [null |-> TRUE, bytes |-> <<>>]

AsInt(b) == IF b THEN 1 ELSE 0

C33_Passed ==
    \A i \in 1..Len(calls) :
        LET r == calls[i].run
            po == installer[r].options.prepare_opts
            io == installer[r].options.install_opts
            got == calls[i].args.options
        IN  /\ calls[i].fn = "wdi_prepare_driver" =>
                  /\ got.vendor_name = AsPointer(po.vendor_name)
                  /\ got.device_guid = AsPointer(po.device_guid)
                  /\ got.cert_subject = AsPointer(po.cert_subject)
                  /\ got.disable_cat = AsInt(po.disable_cat)
                  /\ got.disable_signing = AsInt(po.disable_signing)
                  /\ got.use_wcid_driver = AsInt(po.use_wcid_driver)
            /\ calls[i].fn = "wdi_install_driver" =>
                  /\ got.install_filter_driver = AsInt(io.install_filter_driver)
                  /\ got.pending_install_timeout = io.pending_install_timeout

\* once install() is called, only the two overwritten fields of the
\* installer ever change
C33_Frame ==
    \A r \in Runs :
        pc[r] # "Building" =>
            /\ ChangedFields(installer'[r], installer[r]) \subseteq {"prepare_opts"}
            /\ \A f \in DOMAIN installer[r].options.prepare_opts \ Overwritten :
                  installer'[r].options.prepare_opts[f]
                      = installer[r].options.prepare_opts[f]

C33_ConfigurationPassedOn == []C33_Passed /\ [][C33_Frame]_vars

C33_Witness ==
    \E r \in Runs :
        /\ pc[r] = "Done"
        /\ \E i \in CallsOf(r, "wdi_prepare_driver") :
              /\ calls[i].args.options.vendor_name = Ptr(<<"A", "c", "m", "e">>)
              /\ calls[i].args.options.device_guid = Ptr(<<"{", "1", "}">>)
              /\ calls[i].args.options.disable_cat = 1
              /\ calls[i].args.options.use_wcid_driver = 1
              /\ calls[i].args.options.driver_type = 3
              /\ calls[i].args.options.external_inf = 1
        /\ \E i \in CallsOf(r, "wdi_install_driver") :
              /\ calls[i].args.options.install_filter_driver = 1
              /\ calls[i].args.options.pending_install_timeout = 5000

(***************************************************************************)
(* C34: when native enumerate returns a non-zero code, create_list returns *)
(* the error the code maps to and constructs no DeviceList: whatever list  *)
(* the native call left behind is never iterated and never passed to       *)
(* wdi_destroy_list.                                                       *)
(***************************************************************************)
FailedEnumerations ==
    { i \in 1..Len(calls) : calls[i].fn = "wdi_create_list" /\ calls[i].code # 0 }

C34_NoListOnError ==
    \A i \in FailedEnumerations :
        LET r == calls[i].run
        IN  /\ client[r].op = "create_list"
            /\ client[r].ret = from_code(calls[i].code)
            /\ client[r].ret # Success
            /\ devices[r] = NoList
            /\ ~client[r].iterating
            /\ client[r].yielded = <<>>
            /\ CallsOf(r, "wdi_destroy_list") = {}
            /\ pc[r] = "Done"

\* the failing call left a node behind, which stays where it is
C34_Witness ==
    \E i \in FailedEnumerations :
        /\ calls[i].code = -7
        /\ DOMAIN heap # {}
        /\ pc[calls[i].run] = "Done"
        /\ devices[calls[i].run] = NoList

\* an install() run, once called, eventually returns
EventuallyReturns == (pc[1] = "Selecting") ~> (pc[1] \in {"Done", "Failed"})

(***************************************************************************)
(* C35 as stated: when every native call and every file system operation   *)
(* returns and the native device list is finite and acyclic, an install()  *)
(* run, once called, eventually reaches Done or Failed, and it goes over   *)
(* the catalog at most once on the way.                                    *)
(***************************************************************************)
C35_ReturnsAfterOnePass ==
    /\ EventuallyReturns
    /\ [](Len(passes[1]) <= 1)

\* the selection step of find_device goes over the list at most twice, and
\* no pass visits more records than the list holds
C35_SelectionStep ==
    pc[1] = "Listed" /\ pc'[1] # "Listed" =>
        /\ Len(passes'[1]) <= 2
        /\ \A i \in 1..Len(passes'[1]) :
              passes'[1][i] <= Len(iter(heap, devices[1]))
        /\ Len(pred_evals'[1]) <= Len(iter(heap, devices[1]))

(***************************************************************************)
(* C35, amended: under the same assumptions an install() run, once called, *)
(* eventually reaches Done or Failed, and it goes over the catalog at most *)
(* twice on the way: devices.len() counts the records for the trace        *)
(* message, then the selection walks the list; the predicate is evaluated  *)
(* at most once per record.                                                *)
(***************************************************************************)
C35_ReturnsAfterTwoPasses ==
    /\ EventuallyReturns
    /\ [][C35_SelectionStep]_vars

\* a run has returned after two passes over a catalog of several records
C35_Witness ==
    /\ pc[1] \in {"Done", "Failed"}
    /\ Len(passes[1]) = 2
    /\ passes[1][1] >= 2
    /\ passes[1][2] >= 1

\* the native records a Device may have been converted from
NativeRecords(d) == { raw \in NativeDevices : from_raw(raw) = d }

\* the run enumerated the devices itself
EnumeratingRun(r) == installer[r].device_selector.kind \in {"VidPid", "First"}

\* the conversion of every listed record: driver absent iff the pointer is null
C36_AbsentIffNull ==
    \A r \in Runs :
        pc[r] = "Listed" =>
            \A i \in 1..Len(iter(heap, devices[r])) :
                LET d == iter(heap, devices[r])[i]
                IN  \A raw \in NativeRecords(d) : ~d.driver.some <=> raw.driver.null

(***************************************************************************)
(* C36: a Device record's driver field is absent exactly when the native   *)
(* record's driver pointer is null; hence a run with a VidPid or predicate *)
(* selector never calls native prepare or native install for a device      *)
(* whose native record carries a non-null driver string, whatever bytes    *)
(* the string holds.                                                       *)
(***************************************************************************)
C36_NonNullDriverNeverPrepared ==
    /\ C36_AbsentIffNull
    /\ \A i \in 1..Len(calls) :
          (calls[i].fn \in {"wdi_prepare_driver", "wdi_install_driver"}
           /\ EnumeratingRun(calls[i].run)) =>
              \A raw \in NativeRecords(device[calls[i].run].val) : raw.driver.null

\* the paths install() has written for run r
WrittenPaths(r) == { dir_log[w].path : w \in DirEvents(r, "write") }

(***************************************************************************)
(* C37: with an Embedded INF source, whatever filename the caller supplied *)
(* (a plain name, a name with parent-directory components, an absolute     *)
(* path), the INF file is written inside the temporary directory of the    *)
(* run, and no file written by install() is left on disk once install()    *)
(* has returned.                                                           *)
(***************************************************************************)
C37_WrittenInsideTempDir ==
    \A r \in Runs :
        EmbeddedRun(r) =>
            /\ \A p \in WrittenPaths(r) :
                  \A c \in DirEvents(r, "create") : IsUnder(p, dir_log[c].path)
            /\ pc[r] \in {"Done", "Failed"} =>
                  \A f \in fs_files : f.path \notin WrittenPaths(r)

====
